---- MODULE Spec2Model ----
(***************************************************************************)
(* Model of the spk workspace CLI: the dependency resolver of `spk run     *)
(* build -r` (cmd/run.go, getDepsForRun), the synchronization engine of    *)
(* `spk sync` (cmd/sync.go, syncRepo / syncAllRepos / syncRepoFull) and    *)
(* the build orchestrator of `spk run` (cmd/run.go, runScript,             *)
(* buildRecursivelyRun, autoLinkDeps, autoLinkConsumers).                  *)
(***************************************************************************)
EXTENDS Integers, Sequences, FiniteSets, TLC

(***************************************************************************)
(* Bounds of the model.                                                    *)
(***************************************************************************)
\* longest declared dependency list of one repository
MaxDeps == 2
\* total number of declared dependency edges of a workspace
MaxEdges == 3

(***************************************************************************)
(* Names.  RepoNames is the universe the workspaces are drawn from: one    *)
(* API/model pair of the hardcoded tables and three ordinary repositories. *)
(***************************************************************************)
RepoNames == {"AppAPI", "AppModel", "X", "Y", "Z"}

\* var apiToModel = map[string]string{...}
apiToModel == ("AppAPI" :> "AppModel") @@ ("BusinessAPI" :> "BusinessModel")

\* var modelToAPI = map[string]depMapping{...}
modelToAPI ==
    ("AppModel" :> [api |-> "AppAPI", pkg |-> "@spark-rewards/sra-sdk"]) @@
    ("BusinessModel" :> [api |-> "BusinessAPI", pkg |-> "@spark-rewards/srw-sdk"])

(***************************************************************************)
(* Workspaces: ws.Repos maps a repository name to its RepoDef.  A declared *)
(* dependency may name any repository, present in the workspace or not.    *)
(***************************************************************************)
\* the declared dependency lists of length at most k
DepLists(k) == UNION {[1..m -> RepoNames] : m \in 0..k}

\* the repository names in a fixed order, to draw the workspaces one by one
NameSeq == <<"AppAPI", "AppModel", "X", "Y", "Z">>

\* the lists repository NameSeq[i] may declare with `budget` edges left: none
\* when the repository is not in the key set S
ListsFor(S, i, budget) ==
    IF NameSeq[i] \in S
    THEN DepLists(IF budget < MaxDeps THEN budget ELSE MaxDeps)
    ELSE {<<>>}

\* the workspace with key set S whose repository NameSeq[i] declares ls[i]
MkWorkspace(S, ls) ==
    [Repos |-> [n \in S |->
        [Dependencies |-> ls[CHOOSE i \in 1..Len(NameSeq) : NameSeq[i] = n]]]]

\* _, exists := ws.Repos[n]
Exists(w, n) == n \in DOMAIN w.Repos

(***************************************************************************)
(* getDepsForRun (cmd/run.go).  The walk threads its two captured          *)
(* variables, deps and seen, through the recursion; `entered` records the  *)
(* order in which collect passed its seen-check (instrumentation only).    *)
(***************************************************************************)
\* func containsRun(slice []string, item string) bool
containsRun(slice, item) == \E i \in 1..Len(slice) : slice[i] = item

RECURSIVE collect(_, _, _)

\* if seen[n] { return }
seenGuard(st, n) == n \in st.seen

\* seen[n] = true
markSeen(st, n) ==
    [st EXCEPT !.seen = @ \cup {n}, !.entered = Append(@, n)]

\* mutant: the implicit edge is looked up in the wrong table (model -> API)
implicitEdgeReversed(w, n, st) ==
    IF n \in DOMAIN modelToAPI /\ Exists(w, modelToAPI[n].api)
    THEN LET apiName == modelToAPI[n].api
             s1 == collect(w, apiName, st)
         IN [s1 EXCEPT !.deps = Append(@, apiName)]
    ELSE st

\* if modelName, isAPI := apiToModel[n]; isAPI { if exists { collect; append } }
implicitEdge(w, n, st) ==
    IF n \in DOMAIN apiToModel /\ Exists(w, apiToModel[n])
    THEN LET modelName == apiToModel[n]
             s1 == collect(w, modelName, st)
         IN [s1 EXCEPT !.deps = Append(@, modelName)]
    ELSE st

\* mutant: the dependency is appended before its own dependencies are collected
declaredEdgeAppendFirst(w, dep, st) ==
    IF Exists(w, dep)
    THEN LET s1 == IF ~containsRun(st.deps, dep)
                   THEN [st EXCEPT !.deps = Append(@, dep)]
                   ELSE st
         IN collect(w, dep, s1)
    ELSE st

\* mutant: the depExists test is dropped
declaredEdgeNoExists(w, dep, st) ==
    LET s1 == collect(w, dep, st)
    IN IF ~containsRun(s1.deps, dep)
       THEN [s1 EXCEPT !.deps = Append(@, dep)]
       ELSE s1

\* body of the loop over repo.Dependencies
declaredEdge(w, dep, st) ==
    IF Exists(w, dep)
    THEN LET s1 == collect(w, dep, st)
         IN IF ~containsRun(s1.deps, dep)
            THEN [s1 EXCEPT !.deps = Append(@, dep)]
            ELSE s1
    ELSE st

\* mutant: the loop ends after the first declared dependency
declaredLoopFirstOnly(w, list, i, st) ==
    IF i > Len(list) THEN st
    ELSE declaredEdge(w, list[i], st)

RECURSIVE declaredLoop(_, _, _, _)
\* for _, dep := range repo.Dependencies, from index i on
declaredLoop(w, list, i, st) ==
    IF i > Len(list) THEN st
    ELSE declaredLoop(w, list, i + 1, declaredEdge(w, list[i], st))

\* if repo, exists := ws.Repos[n]; exists { for ... }
declaredEdges(w, n, st) ==
    IF Exists(w, n)
    THEN declaredLoop(w, w.Repos[n].Dependencies, 1, st)
    ELSE st

\* mutant: n is marked seen only after its implicit edge has been followed
collectMarkLate(w, n, st) ==
    IF seenGuard(st, n) THEN st
    ELSE declaredEdges(w, n, markSeen(implicitEdge(w, n, st), n))

collect(w, n, st) ==
    IF seenGuard(st, n) THEN st
    ELSE declaredEdges(w, n, implicitEdge(w, n, markSeen(st, n)))

\* mutant: the final loop copies deps unfiltered
filterTargetNone(deps, name) == deps

\* the final loop: result keeps every d of deps with d != name
filterTarget(deps, name) == SelectSeq(deps, LAMBDA d : d # name)

getDepsForRun(w, name) ==
    LET st == collect(w, name, [deps |-> <<>>, seen |-> {}, entered |-> <<>>])
    IN [result  |-> filterTarget(st.deps, name),
        seen    |-> st.seen \ {name},
        entered |-> st.entered]

(***************************************************************************)
(* The sync engine (cmd/sync.go).  The repositories it works on, and what  *)
(* git and the file system report about each of them.                      *)
(***************************************************************************)
\* most local branches of the workspace that are neither the branch checked
\* out in their repository nor the target branch
MaxSecondary == 2

\* the keys of ws.Repos during a sync
SyncKeys == {"AppAPI", "AppModel"}

\* a command-line argument that names no repository of the workspace
UnknownRepo == "Ghost"

\* branch names, in the order git lists them
BranchNames == <<"main", "feat", "b1", "b2", "b3", "b4">>

\* the local branches of a repository that has n of them
BranchList(n) == SubSeq(BranchNames, 1, n)

\* how many branches of list are neither h nor the target branch main
Secondary(list, h) ==
    Cardinality({i \in 1..Len(list) : list[i] # h /\ list[i] # "main"})

VARIABLES
    ws,            \* the loaded workspace
    target,        \* run: the repository the command runs in
    rpc,           \* run: "ready" before getDepsForRun is called, "resolved" after
    result,        \* run: the slice getDepsForRun returned
    entered,       \* run: the repositories collect entered, in order
    syncNoRebase,  \* --no-rebase
    syncInstall,   \* --install
    syncBranch,    \* --branch
    cloned,        \* cloned[r]: the repository directory exists
    gitStatus,     \* gitStatus[r]: what `git status --short` does: "clean", "changes", "error"
    branches,      \* branches[r]: the local branches, as git lists them
    head,          \* head[r]: the branch that is checked out
    head0,         \* head[r] when the command started
    lock,          \* lock[r]: fingerprint of package-lock.json, or "absent"
    lock0,         \* lock0[r]: the same when the command started
    oplog,         \* oplog[r]: the git commands run in r, in order
    spc,           \* position of the command: "cmd", "spawn", "phase2", "install", "one", "finish", "ret"
    idx,           \* index of the loop the command is in
    allNames,      \* syncAllRepos: the sorted repository names
    wg,            \* syncAllRepos: the WaitGroup counter
    task,          \* task[r]: the fetch goroutine of r: "none", "ready", "fetching", "done", "failed"
    fpc,           \* position inside syncRepoFull, "idle" outside it, "ret" when it has returned
    cur,           \* syncRepoFull: the repository (parameter name)
    loc,           \* syncRepoFull: its local variables
    results,       \* syncAllRepos: the results collected so far
    installed,     \* the repositories npm install was run in
    stepFailed,    \* the npm commands that failed: <<"install", r>>, <<"update", r>>
    ret,           \* what the command returned: "running", "nil", "error"
    runRecursive,  \* flag --recursive of spk run
    runPublished,  \* flag --published of spk run
    script,        \* the script argument of spk run
    present,       \* the repositories whose directory exists
    built,         \* npm.IsBuilt(modelDir): the model has build artifacts
    linked,        \* npm.IsLinked(apiDir, pkg): the consumer resolves the package by a symlink
    registered,    \* the build output is registered with npm link
    bpc,           \* position of the run command: "off", "cmd", "dep", "begin", "running", "ret"
    deps,          \* buildRecursivelyRun: the resolved dependencies
    di,            \* buildRecursivelyRun: index of the loop over deps, Len(deps) + 1 at the target
    repoName,      \* runScript: the repository it runs the script in
    blog,          \* what the run command did, in order: <<event, repository>>
    bret,          \* what the run command returned: "running", "nil" or an error
    repoDefaultBranch, \* workspace.RepoDef.DefaultBranch of each repository, "" when not set
    wsDefaultBranch, \* workspace.Workspace.DefaultBranch, "" when not set
    remote         \* what git knows of origin in each checkout (see GetDefaultBranch)

\* the link state, and the variables of the run command
linkVars == <<built, linked, registered>>
bvars == <<runRecursive, runPublished, script, present, linkVars,
           bpc, deps, di, repoName, blog, bret>>

rvars == <<ws, target, rpc, result, entered, bvars>>

\* the flags of spk sync and the branch configuration it reads
flagVars == <<syncNoRebase, syncInstall, syncBranch, repoDefaultBranch, wsDefaultBranch, remote>>
envVars == <<cloned, gitStatus, branches, head0, lock0>>
gitVars == <<head, lock, oplog>>
ctlVars == <<spc, idx, allNames, wg, task>>
fullVars == <<fpc, cur, loc>>
outVars == <<results, installed, stepFailed, ret>>

svars == <<flagVars, envVars, gitVars, ctlVars, fullVars, outVars>>

vars == <<rvars, svars>>

\* repoSyncResult{} with the fields syncRepoFull has not set
NoMessage == [kind |-> "none", branch |-> "", upstream |-> <<>>, rebased |-> 0, failed |-> <<>>]

ZeroResult ==
    [name |-> "", branch |-> "", status |-> "", message |-> NoMessage,
     aheadBehind |-> "none", dirty |-> FALSE, dirtyStatus |-> "", lockfileChanged |-> FALSE]

ZeroLocals ==
    [currentBranch |-> "", targetBranch |-> "", upstream |-> <<>>, lockBefore |-> "",
     branches |-> <<>>, bi |-> 0, rebasedOthers |-> <<>>, failedOthers |-> <<>>,
     err |-> "nil", result |-> ZeroResult]

\* origin of a checkout: `git symbolic-ref refs/remotes/origin/HEAD` succeeds
\* (ok) and prints ref, given as its segments between the "/"; main and prod
\* say whether `git rev-parse --verify origin/main` and origin/prod succeed
OriginAt(ok, ref, main, prod) == [ok |-> ok, ref |-> ref, main |-> main, prod |-> prod]

\* an origin whose HEAD is main, and no branch configured anywhere
MainOrigin == OriginAt(TRUE, <<"refs", "remotes", "origin", "main">>, TRUE, FALSE)

NoBranchConfig ==
    /\ repoDefaultBranch = [r \in SyncKeys |-> ""]
    /\ wsDefaultBranch = ""
    /\ remote = [r \in SyncKeys |-> MainOrigin]

\* no sync command is running (the state of the sync variables in a run command)
SyncOff ==
    /\ syncNoRebase = FALSE /\ syncInstall = FALSE /\ syncBranch = ""
    /\ NoBranchConfig
    /\ cloned = [r \in SyncKeys |-> FALSE]
    /\ gitStatus = [r \in SyncKeys |-> "clean"]
    /\ branches = [r \in SyncKeys |-> <<>>]
    /\ head = [r \in SyncKeys |-> ""]
    /\ head0 = head
    /\ lock = [r \in SyncKeys |-> "absent"]
    /\ lock0 = lock
    /\ oplog = [r \in SyncKeys |-> <<>>]
    /\ spc = "off" /\ idx = 0 /\ allNames = <<>> /\ wg = 0
    /\ task = [r \in SyncKeys |-> "none"]
    /\ fpc = "idle" /\ cur = "" /\ loc = ZeroLocals
    /\ results = <<>> /\ installed = {} /\ stepFailed = {} /\ ret = "running"

\* no build is running
BuildOff ==
    /\ runRecursive = FALSE /\ runPublished = FALSE /\ script = ""
    /\ present = {}
    /\ built = FALSE /\ linked = FALSE /\ registered = FALSE
    /\ bpc = "off" /\ deps = <<>> /\ di = 0 /\ repoName = ""
    /\ blog = <<>> /\ bret = [kind |-> "running", repo |-> "", cause |-> ""]

\* no run command is running
ResolveOff ==
    /\ target = "" /\ rpc = "off" /\ result = <<>> /\ entered = <<>>
    /\ BuildOff

(***************************************************************************)
(* State of a resolver run.                                                *)
(***************************************************************************)
\* the run command resolves the target from the working directory, so the
\* target is always a repository of the workspace (detectCurrentRepoForRun)
InitResolve ==
    /\ \E S \in (SUBSET RepoNames) \ {{}} :
         \E l1 \in ListsFor(S, 1, MaxEdges) :
         \E l2 \in ListsFor(S, 2, MaxEdges - Len(l1)) :
         \E l3 \in ListsFor(S, 3, MaxEdges - Len(l1) - Len(l2)) :
         \E l4 \in ListsFor(S, 4, MaxEdges - Len(l1) - Len(l2) - Len(l3)) :
         \E l5 \in ListsFor(S, 5, MaxEdges - Len(l1) - Len(l2) - Len(l3) - Len(l4)) :
            ws = MkWorkspace(S, <<l1, l2, l3, l4, l5>>)
    /\ target \in DOMAIN ws.Repos
    /\ rpc = "ready"
    /\ result = <<>>
    /\ entered = <<>>
    /\ BuildOff
    /\ SyncOff

\* deps := getDepsForRun(ws, target)
Resolve ==
    /\ rpc = "ready"
    /\ LET r == getDepsForRun(ws, target)
       IN /\ result' = r.result
          /\ entered' = r.entered
    /\ rpc' = "resolved"
    /\ UNCHANGED <<ws, target, bvars, svars>>

NextResolve == Resolve

ResolveSpec == InitResolve /\ [][NextResolve]_vars

(***************************************************************************)
(* The primitives of internal/git the sync engine calls.  Every command    *)
(* that returns an error is run with an outcome `ok` the caller draws.     *)
(***************************************************************************)
\* func Status(repoDir string) (string, error)
Status(r) ==
    IF gitStatus[r] = "error" THEN [out |-> "", err |-> TRUE]
    ELSE [out |-> IF gitStatus[r] = "changes" THEN "M" ELSE "", err |-> FALSE]

\* mutant: the comparison of IsDirty is inverted
IsDirtyInverted(r) ==
    LET st == Status(r) IN IF st.err THEN FALSE ELSE st.out = ""

\* func IsDirty(repoDir string) bool
IsDirty(r) ==
    LET st == Status(r) IN IF st.err THEN FALSE ELSE st.out # ""

\* git.GetCurrentBranch(repoDir)
GetCurrentBranch(r) == head[r]

\* git.ListLocalBranches(repoDir)
ListLocalBranches(r) == branches[r]

\* func GetDefaultBranch(repoDir string) string: the last of the parts
\* strings.Split(ref, "/") gives, else the first of origin/main and
\* origin/prod that exists, else "main"
GetDefaultBranch(r) ==
    LET parts == remote[r].ref
    IN IF remote[r].ok /\ Len(parts) > 0 THEN parts[Len(parts)]
       ELSE IF remote[r].main THEN "main"
       ELSE IF remote[r].prod THEN "prod"
       ELSE "main"

\* func getTargetBranch(ws, repo, repoDir) string
getTargetBranch(branchFlag, repoDefault, wsDefault, r) ==
    IF branchFlag # "" THEN branchFlag
    ELSE IF repoDefault # "" THEN repoDefault
    ELSE IF wsDefault # "" THEN wsDefault
    ELSE GetDefaultBranch(r)

\* upstream := fmt.Sprintf("origin/%s", targetBranch)
Upstream(targetBranch) == <<"origin", targetBranch>>

\* func fileHash(path string) string, of the package-lock.json of r
fileHash(r) == IF lock[r] = "absent" THEN "" ELSE lock[r]

\* the oplog after command op was run in r
Logged(r, op) == [oplog EXCEPT ![r] = Append(@, op)]

\* package-lock.json of r after a command that rewrote the working tree
\* (touched) or left the file alone
Rewritten(r, touched) == IF touched THEN [lock EXCEPT ![r] = "f1"] ELSE lock

\* git.CheckoutQuiet(repoDir, branch): on success branch is checked out
CheckoutQuiet(r, branch, ok) == IF ok THEN [head EXCEPT ![r] = branch] ELSE head

\* mutant: the names are left in an order of the map iteration, here descending
RECURSIVE SortStringsDescending(_)
SortStringsDescending(S) ==
    IF S = {} THEN <<>>
    ELSE LET rank(n) == CHOOSE i \in 1..Len(NameSeq) : NameSeq[i] = n
             m == CHOOSE x \in S : \A y \in S : rank(x) >= rank(y)
         IN <<m>> \o SortStringsDescending(S \ {m})

\* sort.Strings(allNames): byte order, which is the order of NameSeq
RECURSIVE SortStrings(_)
SortStrings(S) ==
    IF S = {} THEN <<>>
    ELSE LET rank(n) == CHOOSE i \in 1..Len(NameSeq) : NameSeq[i] = n
             m == CHOOSE x \in S : \A y \in S : rank(x) <= rank(y)
         IN <<m>> \o SortStrings(S \ {m})

(***************************************************************************)
(* A sync command starts with the flags given, a workspace of the          *)
(* repositories SyncKeys and whatever state their checkouts are in.  A     *)
(* `git status` that fails is looked at in the workspaces with one         *)
(* checkout: after the dirty check such a checkout is treated as a clean   *)
(* one, in every workspace.                                                *)
(***************************************************************************)
InitSync ==
    /\ ws = MkWorkspace(SyncKeys, [i \in 1..Len(NameSeq) |-> <<>>])
    /\ ResolveOff
    /\ syncNoRebase \in BOOLEAN
    /\ syncInstall \in BOOLEAN
    /\ syncBranch = ""
    /\ NoBranchConfig
    /\ cloned \in [SyncKeys -> BOOLEAN]
    /\ gitStatus \in [SyncKeys -> {"clean", "changes", "error"}]
    /\ (\E r \in SyncKeys : gitStatus[r] = "error") =>
          Cardinality({r \in SyncKeys : cloned[r]}) = 1
    /\ \E n \in [SyncKeys -> 1..(MaxSecondary + 2)] :
          branches = [r \in SyncKeys |-> IF cloned[r] THEN BranchList(n[r]) ELSE <<>>]
    /\ head \in [SyncKeys -> {"", "main", "feat"}]
    /\ lock \in [SyncKeys -> {"absent", "f0"}]
    /\ \A r \in SyncKeys :
          IF cloned[r]
          THEN \E i \in 1..Len(branches[r]) : branches[r][i] = head[r]
          ELSE gitStatus[r] = "clean" /\ head[r] = "" /\ lock[r] = "absent"
    /\ LET RECURSIVE Sum(_)
           Sum(S) == IF S = {} THEN 0
                     ELSE LET r == CHOOSE x \in S : TRUE
                          IN Secondary(branches[r], head[r]) + Sum(S \ {r})
       IN Sum(SyncKeys) <= MaxSecondary
    /\ head0 = head
    /\ lock0 = lock
    /\ oplog = [r \in SyncKeys |-> <<>>]
    /\ spc = "cmd" /\ idx = 0 /\ allNames = <<>> /\ wg = 0
    /\ task = [r \in SyncKeys |-> "none"]
    /\ fpc = "idle" /\ cur = "" /\ loc = ZeroLocals
    /\ results = <<>> /\ installed = {} /\ stepFailed = {} /\ ret = "running"

(***************************************************************************)
(* syncCmd.RunE, syncRepo and syncAllRepos.                                *)
(***************************************************************************)
\* spk sync <name>: syncRepo up to its call of syncRepoFull
SyncCmdOne(name) ==
    /\ spc = "cmd"
    /\ IF name \notin DOMAIN ws.Repos
       THEN ret' = "error" /\ spc' = "ret" /\ UNCHANGED fullVars
       ELSE IF ~cloned[name]
       THEN ret' = "error" /\ spc' = "ret" /\ UNCHANGED fullVars
       ELSE /\ spc' = "one" /\ cur' = name /\ fpc' = "begin" /\ loc' = ZeroLocals
            /\ UNCHANGED ret
    /\ UNCHANGED <<rvars, flagVars, envVars, gitVars, idx, allNames, wg, task,
                   results, installed, stepFailed>>

\* spk sync: syncAllRepos up to the fetch loop
SyncCmdAll ==
    /\ spc = "cmd"
    /\ IF DOMAIN ws.Repos = {}
       THEN ret' = "nil" /\ spc' = "ret" /\ UNCHANGED <<allNames, idx>>
       ELSE /\ allNames' = SortStrings(DOMAIN ws.Repos)
            /\ spc' = "spawn" /\ idx' = 1
            /\ UNCHANGED ret
    /\ UNCHANGED <<rvars, flagVars, envVars, gitVars, wg, task, fullVars,
                   results, installed, stepFailed>>

\* mutant: the goroutine is started without wg.Add(1)
WgAddOmitted == wg

\* wg.Add(1)
WgAdd == wg + 1

\* mutant: the goroutine takes no argument and reads the directory from the
\* variables of the loop, which by then hold the last repository
SpawnFetchLastDir ==
    /\ spc = "spawn" /\ idx <= Len(allNames)
    /\ LET r == allNames[idx]
           dir == allNames[Len(allNames)]
       IN IF ~cloned[r]
          THEN UNCHANGED <<wg, task>>
          ELSE wg' = WgAdd /\ task' = [task EXCEPT ![dir] = "ready"]
    /\ idx' = idx + 1
    /\ UNCHANGED <<rvars, flagVars, envVars, gitVars, spc, allNames, fullVars, outVars>>

\* Phase 1, one iteration: wg.Add(1); go func(dir) {...}(repoDir)
SpawnFetch ==
    /\ spc = "spawn" /\ idx <= Len(allNames)
    /\ LET r == allNames[idx]
       IN IF ~cloned[r]
          THEN UNCHANGED <<wg, task>>
          ELSE wg' = WgAdd /\ task' = [task EXCEPT ![r] = "ready"]
    /\ idx' = idx + 1
    /\ UNCHANGED <<rvars, flagVars, envVars, gitVars, spc, allNames, fullVars, outVars>>

\* a fetch goroutine starts git.FetchQuiet(dir, "origin")
FetchStart(r) ==
    /\ task[r] = "ready"
    /\ task' = [task EXCEPT ![r] = "fetching"]
    /\ oplog' = Logged(r, "fetch")
    /\ UNCHANGED <<rvars, flagVars, envVars, head, lock, spc, idx, allNames, wg,
                   fullVars, outVars>>

\* the fetch ends, its error is dropped; defer wg.Done()
FetchDone(r) ==
    /\ task[r] = "fetching"
    /\ \E ok \in BOOLEAN : task' = [task EXCEPT ![r] = IF ok THEN "done" ELSE "failed"]
    /\ wg' = wg - 1
    /\ UNCHANGED <<rvars, flagVars, envVars, gitVars, spc, idx, allNames,
                   fullVars, outVars>>

\* mutant: the command does not wait for the fetches
WaitReturnsAtOnce == TRUE

\* wg.Wait() returns
WaitReturns == wg = 0

\* the fetch loop has ended and wg.Wait() returns: Phase 2 begins
WgWait ==
    /\ spc = "spawn" /\ idx > Len(allNames)
    /\ WaitReturns
    /\ spc' = "phase2" /\ idx' = 1 /\ results' = <<>>
    /\ UNCHANGED <<rvars, flagVars, envVars, gitVars, allNames, wg, task, fullVars,
                   installed, stepFailed, ret>>

\* mutant: Phase 2 calls syncRepoFull without looking for the directory
Phase2NextNoStat ==
    /\ spc = "phase2" /\ fpc = "idle" /\ idx <= Len(allNames)
    /\ cur' = allNames[idx] /\ fpc' = "begin" /\ loc' = ZeroLocals
    /\ UNCHANGED <<rvars, flagVars, envVars, gitVars, spc, allNames, wg, task,
                   results, idx, installed, stepFailed, ret>>

\* Phase 2, one iteration up to the call of syncRepoFull
Phase2Next ==
    /\ spc = "phase2" /\ fpc = "idle" /\ idx <= Len(allNames)
    /\ LET r == allNames[idx]
       IN IF ~cloned[r]
          THEN /\ results' = Append(results,
                     [ZeroResult EXCEPT !.name = r, !.status = "skipped",
                                        !.message = [NoMessage EXCEPT !.kind = "not cloned"]])
               /\ idx' = idx + 1
               /\ UNCHANGED fullVars
          ELSE /\ cur' = r /\ fpc' = "begin" /\ loc' = ZeroLocals
               /\ UNCHANGED <<results, idx>>
    /\ UNCHANGED <<rvars, flagVars, envVars, gitVars, spc, allNames, wg, task,
                   installed, stepFailed, ret>>

\* mutant: the loop of Phase 2 ends at the first failed result
AfterResultStopOnFailure(res, i) ==
    IF res.status = "failed" THEN Len(allNames) + 1 ELSE i + 1

\* the loop of Phase 2 goes on to the next name whatever the result is
AfterResult(res, i) == i + 1

\* results = append(results, result)
Phase2Collect ==
    /\ spc = "phase2" /\ fpc = "ret"
    /\ results' = Append(results, loc.result)
    /\ idx' = AfterResult(loc.result, idx)
    /\ fpc' = "idle"
    /\ UNCHANGED <<rvars, flagVars, envVars, gitVars, spc, allNames, wg, task, cur, loc,
                   installed, stepFailed, ret>>

\* Phase 3: the status table is printed; Phase 4 follows if --install
Phase2End ==
    /\ spc = "phase2" /\ fpc = "idle" /\ idx > Len(allNames)
    /\ IF syncInstall
       THEN spc' = "install" /\ idx' = 1
       ELSE spc' = "finish" /\ UNCHANGED idx
    /\ UNCHANGED <<rvars, flagVars, envVars, gitVars, allNames, wg, task, fullVars, outVars>>

\* Phase 4, one iteration: npm install where package-lock.json changed and
\* a package.json exists (hasPkg); the error of npm install is only printed
InstallNext ==
    /\ spc = "install" /\ idx <= Len(results)
    /\ LET r == results[idx]
       IN IF ~r.lockfileChanged
          THEN UNCHANGED <<installed, stepFailed>>
          ELSE \E hasPkg \in BOOLEAN, ok \in BOOLEAN :
                  /\ installed' = IF hasPkg THEN installed \cup {r.name} ELSE installed
                  /\ stepFailed' = IF hasPkg /\ ~ok
                                   THEN stepFailed \cup {<<"install", r.name>>}
                                   ELSE stepFailed
    /\ idx' = idx + 1
    /\ UNCHANGED <<rvars, flagVars, envVars, gitVars, spc, allNames, wg, task, fullVars,
                   results, ret>>

InstallEnd ==
    /\ spc = "install" /\ idx > Len(results)
    /\ spc' = "finish"
    /\ UNCHANGED <<rvars, flagVars, envVars, gitVars, idx, allNames, wg, task, fullVars,
                   outVars>>

\* mutant: the command returns an error when a repository failed to sync
SyncAllFinishFailsOnFailed ==
    /\ spc = "finish"
    /\ ret' = (IF \E i \in 1..Len(results) : results[i].status = "failed"
               THEN "error" ELSE "nil")
    /\ spc' = "ret"
    /\ UNCHANGED <<rvars, flagVars, envVars, gitVars, idx, allNames, wg, task, fullVars,
                   results, installed, stepFailed>>

\* the package update (with --update, in the repositories `failing`
\* `npm install <pkg>@latest` fails and a cross is printed) and Phase 5 do
\* not fail the command: return nil
SyncAllFinish ==
    /\ spc = "finish"
    /\ \E syncUpdate \in BOOLEAN :
          \E failing \in SUBSET {r \in DOMAIN ws.Repos : syncUpdate /\ cloned[r]} :
             stepFailed' = stepFailed \cup {<<"update", r>> : r \in failing}
    /\ ret' = "nil" /\ spc' = "ret"
    /\ UNCHANGED <<rvars, flagVars, envVars, gitVars, idx, allNames, wg, task, fullVars,
                   results, installed>>

\* syncRepo after syncRepoFull returned: printResult, installRepo, return nil
SyncOneFinish ==
    /\ spc = "one" /\ fpc = "ret"
    /\ IF syncInstall /\ loc.result.lockfileChanged
       THEN \E hasPkg \in BOOLEAN, ok \in BOOLEAN :
               /\ installed' = IF hasPkg THEN installed \cup {cur} ELSE installed
               /\ stepFailed' = IF hasPkg /\ ~ok
                                THEN stepFailed \cup {<<"install", cur>>}
                                ELSE stepFailed
       ELSE UNCHANGED <<installed, stepFailed>>
    /\ ret' = "nil" /\ spc' = "ret" /\ fpc' = "idle"
    /\ UNCHANGED <<rvars, flagVars, envVars, gitVars, idx, allNames, wg, task, cur, loc,
                   results>>

(***************************************************************************)
(* syncRepoFull, one action for each git command it runs.                  *)
(***************************************************************************)
\* currentBranch, targetBranch, upstream, result, the first AheadBehind
FullBegin ==
    /\ fpc = "begin"
    /\ LET currentBranch == GetCurrentBranch(cur)
           targetBranch == getTargetBranch(syncBranch, repoDefaultBranch[cur], wsDefaultBranch, cur)
       IN loc' = [loc EXCEPT !.currentBranch = currentBranch,
                             !.targetBranch = targetBranch,
                             !.upstream = Upstream(targetBranch),
                             !.result = [ZeroResult EXCEPT !.name = cur,
                                                           !.branch = currentBranch,
                                                           !.aheadBehind = "pre"]]
    /\ fpc' = "dirty"
    /\ UNCHANGED <<rvars, flagVars, envVars, gitVars, ctlVars, cur, outVars>>

\* mutant: the flag --no-rebase is not looked at
FullDirtyIgnoresNoRebase ==
    /\ fpc = "dirty"
    /\ IF IsDirty(cur)
       THEN /\ loc' = [loc EXCEPT !.result.dirty = TRUE,
                                  !.result.dirtyStatus = Status(cur).out,
                                  !.result.status = "skipped",
                                  !.result.message = [NoMessage EXCEPT !.kind = "dirty working tree"]]
            /\ fpc' = "ret"
       ELSE /\ loc' = [loc EXCEPT !.lockBefore = fileHash(cur),
                                  !.branches = ListLocalBranches(cur)]
            /\ fpc' = "rebase"
    /\ UNCHANGED <<rvars, flagVars, envVars, gitVars, ctlVars, cur, outVars>>

\* if git.IsDirty(repoDir) {...}; if syncNoRebase {...}; lockBefore; branches
FullDirty ==
    /\ fpc = "dirty"
    /\ IF IsDirty(cur)
       THEN /\ loc' = [loc EXCEPT !.result.dirty = TRUE,
                                  !.result.dirtyStatus = Status(cur).out,
                                  !.result.status = "skipped",
                                  !.result.message = [NoMessage EXCEPT !.kind = "dirty working tree"]]
            /\ fpc' = "ret"
       ELSE IF syncNoRebase
       THEN fpc' = "pull" /\ UNCHANGED loc
       ELSE /\ loc' = [loc EXCEPT !.lockBefore = fileHash(cur),
                                  !.branches = ListLocalBranches(cur)]
            /\ fpc' = "rebase"
    /\ UNCHANGED <<rvars, flagVars, envVars, gitVars, ctlVars, cur, outVars>>

\* mutant: the no-rebase return compares the lockfile with the fingerprint
\* lockBefore, which it has not taken
FullPullComparesLock ==
    /\ fpc = "pull"
    /\ oplog' = Logged(cur, "pull")
    /\ \E ok \in BOOLEAN :
          IF ok
          THEN /\ \E touched \in BOOLEAN : lock' = Rewritten(cur, touched)
               /\ loc' = [loc EXCEPT !.result.status = "synced"]
          ELSE /\ UNCHANGED lock
               /\ loc' = [loc EXCEPT !.err = "pull failed",
                                     !.result.status = "failed",
                                     !.result.lockfileChanged = loc.lockBefore # fileHash(cur),
                                     !.result.message = [NoMessage EXCEPT !.kind = "pull failed"]]
    /\ fpc' = "ret"
    /\ UNCHANGED <<rvars, flagVars, envVars, head, ctlVars, cur, outVars>>

\* git.Pull(repoDir)
FullPull ==
    /\ fpc = "pull"
    /\ oplog' = Logged(cur, "pull")
    /\ \E ok \in BOOLEAN :
          IF ok
          THEN /\ \E touched \in BOOLEAN : lock' = Rewritten(cur, touched)
               /\ loc' = [loc EXCEPT !.result.status = "synced"]
          ELSE /\ UNCHANGED lock
               /\ loc' = [loc EXCEPT !.err = "pull failed",
                                     !.result.status = "failed",
                                     !.result.message = [NoMessage EXCEPT !.kind = "pull failed"]]
    /\ fpc' = "ret"
    /\ UNCHANGED <<rvars, flagVars, envVars, head, ctlVars, cur, outVars>>

\* git.RebaseQuiet(repoDir, upstream) of the current branch
FullRebase ==
    /\ fpc = "rebase"
    /\ oplog' = Logged(cur, "rebase")
    /\ \E ok \in BOOLEAN :
          IF ok
          THEN /\ \E touched \in BOOLEAN : lock' = Rewritten(cur, touched)
               /\ loc' = [loc EXCEPT !.bi = 1]
               /\ fpc' = "loop"
          ELSE /\ UNCHANGED <<lock, loc>>
               /\ fpc' = "abort"
    /\ UNCHANGED <<rvars, flagVars, envVars, head, ctlVars, cur, outVars>>

\* mutant: after the failed rebase of the current branch the other branches
\* are rebased all the same
FullAbortGoesOn ==
    /\ fpc = "abort"
    /\ oplog' = Logged(cur, "abort")
    /\ loc' = [loc EXCEPT !.result.status = "failed",
                          !.result.message = [NoMessage EXCEPT !.kind = "rebase failed",
                                                               !.branch = loc.currentBranch,
                                                               !.upstream = loc.upstream],
                          !.bi = 1]
    /\ fpc' = "loop"
    /\ UNCHANGED <<rvars, flagVars, envVars, head, lock, ctlVars, cur, outVars>>

\* git.RebaseAbortQuiet(repoDir) (its error is dropped); the failed result
FullAbort ==
    /\ fpc = "abort"
    /\ oplog' = Logged(cur, "abort")
    /\ loc' = [loc EXCEPT !.result.status = "failed",
                          !.result.message = [NoMessage EXCEPT !.kind = "rebase failed",
                                                               !.branch = loc.currentBranch,
                                                               !.upstream = loc.upstream]]
    /\ fpc' = "ret"
    /\ UNCHANGED <<rvars, flagVars, envVars, head, lock, ctlVars, cur, outVars>>

\* the loop over branches: continue on the current and the target branch
FullLoopSkip ==
    /\ fpc = "loop" /\ loc.bi <= Len(loc.branches)
    /\ LET branch == loc.branches[loc.bi]
       IN branch = loc.currentBranch \/ branch = loc.targetBranch
    /\ loc' = [loc EXCEPT !.bi = @ + 1]
    /\ UNCHANGED <<rvars, flagVars, envVars, gitVars, ctlVars, fpc, cur, outVars>>

\* git.CheckoutQuiet(repoDir, branch); on an error the branch is passed over
FullCheckout ==
    /\ fpc = "loop" /\ loc.bi <= Len(loc.branches)
    /\ LET branch == loc.branches[loc.bi]
       IN /\ branch # loc.currentBranch /\ branch # loc.targetBranch
          /\ oplog' = Logged(cur, "checkout")
          /\ \E ok \in BOOLEAN :
                /\ head' = CheckoutQuiet(cur, branch, ok)
                /\ IF ok
                   THEN /\ \E touched \in BOOLEAN : lock' = Rewritten(cur, touched)
                        /\ fpc' = "rebaseB"
                        /\ UNCHANGED loc
                   ELSE /\ UNCHANGED <<lock, fpc>>
                        /\ loc' = [loc EXCEPT !.bi = @ + 1]
    /\ UNCHANGED <<rvars, flagVars, envVars, ctlVars, cur, outVars>>

\* git.RebaseQuiet(repoDir, upstream) of another branch
FullRebaseOther ==
    /\ fpc = "rebaseB"
    /\ oplog' = Logged(cur, "rebase")
    /\ \E ok \in BOOLEAN :
          IF ok
          THEN /\ \E touched \in BOOLEAN : lock' = Rewritten(cur, touched)
               /\ loc' = [loc EXCEPT !.rebasedOthers = Append(@, loc.branches[loc.bi]),
                                     !.bi = @ + 1]
               /\ fpc' = "loop"
          ELSE /\ UNCHANGED <<lock, loc>>
               /\ fpc' = "abortB"
    /\ UNCHANGED <<rvars, flagVars, envVars, head, ctlVars, cur, outVars>>

\* mutant: a failed rebase of a secondary branch ends the loop
FullAbortOtherBreaks ==
    /\ fpc = "abortB"
    /\ oplog' = Logged(cur, "abort")
    /\ loc' = [loc EXCEPT !.failedOthers = Append(@, loc.branches[loc.bi]),
                          !.bi = Len(loc.branches) + 1]
    /\ fpc' = "loop"
    /\ UNCHANGED <<rvars, flagVars, envVars, head, lock, ctlVars, cur, outVars>>

\* git.RebaseAbortQuiet(repoDir); failedOthers = append(failedOthers, branch)
FullAbortOther ==
    /\ fpc = "abortB"
    /\ oplog' = Logged(cur, "abort")
    /\ loc' = [loc EXCEPT !.failedOthers = Append(@, loc.branches[loc.bi]),
                          !.bi = @ + 1]
    /\ fpc' = "loop"
    /\ UNCHANGED <<rvars, flagVars, envVars, head, lock, ctlVars, cur, outVars>>

\* after the loop: git.CheckoutQuiet(repoDir, currentBranch), error dropped
FullRestore ==
    /\ fpc = "loop" /\ loc.bi > Len(loc.branches)
    /\ oplog' = Logged(cur, "checkout")
    /\ \E ok \in BOOLEAN :
          /\ head' = CheckoutQuiet(cur, loc.currentBranch, ok)
          /\ IF ok
             THEN \E touched \in BOOLEAN : lock' = Rewritten(cur, touched)
             ELSE UNCHANGED lock
    /\ fpc' = "finish"
    /\ UNCHANGED <<rvars, flagVars, envVars, ctlVars, cur, loc, outVars>>

\* mutant: the lockfile is reported as changed whatever the fingerprints are
LockfileChangedAlways(lockBefore, lockAfter) == TRUE

\* result.lockfileChanged = lockBefore != lockAfter
LockfileChanged(lockBefore, lockAfter) == lockBefore # lockAfter

\* lockAfter, the second AheadBehind, status and message
FullFinish ==
    /\ fpc = "finish"
    /\ LET lockAfter == fileHash(cur)
           summary == Len(loc.rebasedOthers) > 0 \/ Len(loc.failedOthers) > 0
       IN loc' = [loc EXCEPT !.result.lockfileChanged = LockfileChanged(loc.lockBefore, lockAfter),
                             !.result.aheadBehind = "post",
                             !.result.status = "synced",
                             !.result.message =
                                 IF summary
                                 THEN [NoMessage EXCEPT !.kind = "summary",
                                                        !.rebased = Len(loc.rebasedOthers),
                                                        !.failed = loc.failedOthers]
                                 ELSE NoMessage]
    /\ fpc' = "ret"
    /\ UNCHANGED <<rvars, flagVars, envVars, gitVars, ctlVars, cur, outVars>>

syncRepoFull ==
    \/ FullBegin \/ FullDirty \/ FullPull
    \/ FullRebase \/ FullAbort
    \/ FullLoopSkip \/ FullCheckout \/ FullRebaseOther \/ FullAbortOther
    \/ FullRestore \/ FullFinish

NextSync ==
    \/ \E name \in SyncKeys \cup {UnknownRepo} : SyncCmdOne(name)
    \/ SyncCmdAll
    \/ SpawnFetch
    \/ \E r \in SyncKeys : FetchStart(r)
    \/ \E r \in SyncKeys : FetchDone(r)
    \/ WgWait
    \/ Phase2Next \/ Phase2Collect \/ Phase2End
    \/ InstallNext \/ InstallEnd
    \/ SyncAllFinish \/ SyncOneFinish
    \/ syncRepoFull

SyncSpec == InitSync /\ [][NextSync]_vars

(***************************************************************************)
(* The choice of the target branch: spk sync <name> of one checkout, with  *)
(* the flag --branch, the default_branch of the repository and of the      *)
(* workspace, and the origin of the checkout in every combination.         *)
(***************************************************************************)
\* values of --branch, RepoDef.DefaultBranch and Workspace.DefaultBranch
BranchFlags == {"", "dev", "main"}
RepoDefaults == {"", "prod", "dev"}
WsDefaults == {"", "stage", "main"}

\* what refs/remotes/origin/HEAD can point to: origin/main, origin/trunk and
\* origin/release/v1
OriginRefs ==
    {<<"refs", "remotes", "origin", "main">>,
     <<"refs", "remotes", "origin", "trunk">>,
     <<"refs", "remotes", "origin", "release", "v1">>}

\* the origins of a checkout: HEAD known, or not (a clone without origin/HEAD)
Origins ==
    {OriginAt(TRUE, h, m, p) : h \in OriginRefs, m \in BOOLEAN, p \in BOOLEAN}
      \cup {OriginAt(FALSE, <<>>, m, p) : m \in BOOLEAN, p \in BOOLEAN}

InitTarget ==
    /\ ws = MkWorkspace(SyncKeys, [i \in 1..Len(NameSeq) |-> <<>>])
    /\ ResolveOff
    /\ syncNoRebase = FALSE /\ syncInstall = FALSE
    /\ syncBranch \in BranchFlags
    /\ wsDefaultBranch \in WsDefaults
    /\ \E t \in SyncKeys :
          /\ cloned = [r \in SyncKeys |-> r = t]
          /\ \E d \in RepoDefaults :
                repoDefaultBranch = [r \in SyncKeys |-> IF r = t THEN d ELSE ""]
          /\ \E o \in Origins :
                remote = [r \in SyncKeys |-> IF r = t THEN o ELSE MainOrigin]
    /\ gitStatus = [r \in SyncKeys |-> "clean"]
    /\ branches = [r \in SyncKeys |-> IF cloned[r] THEN BranchList(1) ELSE <<>>]
    /\ head = [r \in SyncKeys |-> IF cloned[r] THEN "main" ELSE ""]
    /\ lock = [r \in SyncKeys |-> "absent"]
    /\ head0 = head
    /\ lock0 = lock
    /\ oplog = [r \in SyncKeys |-> <<>>]
    /\ spc = "cmd" /\ idx = 0 /\ allNames = <<>> /\ wg = 0
    /\ task = [r \in SyncKeys |-> "none"]
    /\ fpc = "idle" /\ cur = "" /\ loc = ZeroLocals
    /\ results = <<>> /\ installed = {} /\ stepFailed = {} /\ ret = "running"

\* syncRepo up to the first statements of syncRepoFull
NextTarget ==
    \/ \E name \in SyncKeys \cup {UnknownRepo} : SyncCmdOne(name)
    \/ FullBegin

TargetSpec == InitTarget /\ [][NextTarget]_vars

(***************************************************************************)
(* The build orchestrator (cmd/run.go): link reconciliation, runScript and *)
(* buildRecursivelyRun.                                                    *)
(***************************************************************************)
\* total number of declared dependency edges of a workspace that is built
MaxBuildEdges == 2

\* the repositories of a workspace that is built
BuildNames == {"AppAPI", "AppModel", "X"}

\* the declared dependency lists of a repository of such a workspace
BuildLists(S, i, budget) ==
    IF NameSeq[i] \in S
    THEN UNION {[1..m -> BuildNames] : m \in 0..(IF budget < MaxDeps THEN budget ELSE MaxDeps)}
    ELSE {<<>>}

\* what reconciliation reads and writes: artifacts, symlink, npm registry
LinkEnv == [built |-> built, linked |-> linked, registered |-> registered]

\* the outcome of a reconciliation that ran no package operation
NoLink(e, outcome) == [env |-> e, ops |-> <<>>, outcome |-> outcome, err |-> FALSE]

\* mutant: the consumer link is created although the registration failed
LinkTransitionIgnoresLink(e, okLink, okPkg) ==
    IF ~okPkg
    THEN [env |-> e, ops |-> <<"npm link", "npm link pkg">>, outcome |-> "failed", err |-> TRUE]
    ELSE [env |-> [e EXCEPT !.linked = TRUE],
          ops |-> <<"npm link", "npm link pkg">>, outcome |-> "linked", err |-> FALSE]

\* npm.Link(buildDir) registers the build output, then
\* npm.LinkPackage(apiDir, mapping.pkg) makes node_modules/<pkg> a symlink
LinkTransition(e, okLink, okPkg) ==
    IF ~okLink
    THEN [env |-> e, ops |-> <<"npm link">>, outcome |-> "failed", err |-> TRUE]
    ELSE LET e1 == [e EXCEPT !.registered = TRUE]
         IN IF ~okPkg
            THEN [env |-> e1, ops |-> <<"npm link", "npm link pkg">>,
                  outcome |-> "failed", err |-> TRUE]
            ELSE [env |-> [e1 EXCEPT !.linked = TRUE],
                  ops |-> <<"npm link", "npm link pkg">>,
                  outcome |-> "linked", err |-> FALSE]

\* mutant: autoLinkDeps without its IsLinked test
autoLinkDepsRelinks(w, name, e, okLink, okPkg) ==
    IF name \notin DOMAIN apiToModel THEN NoLink(e, "none")
    ELSE IF ~Exists(w, apiToModel[name]) THEN NoLink(e, "none")
    ELSE IF ~e.built THEN NoLink(e, "not built")
    ELSE LinkTransition(e, okLink, okPkg)

\* func autoLinkDeps(wsPath, ws, name) error
autoLinkDeps(w, name, e, okLink, okPkg) ==
    IF name \notin DOMAIN apiToModel THEN NoLink(e, "none")
    ELSE IF ~Exists(w, apiToModel[name]) THEN NoLink(e, "none")
    ELSE IF ~e.built THEN NoLink(e, "not built")
    ELSE IF e.linked THEN NoLink(e, "already linked")
    ELSE LinkTransition(e, okLink, okPkg)

\* mutant: autoLinkConsumers does nothing
autoLinkConsumersNever(w, name, dirs, e, okLink, okPkg) == NoLink(e, "none")

\* mutant: autoLinkConsumers without its IsBuilt test
autoLinkConsumersUnbuilt(w, name, dirs, e, okLink, okPkg) ==
    IF name \notin DOMAIN modelToAPI THEN NoLink(e, "none")
    ELSE IF ~Exists(w, modelToAPI[name].api) THEN NoLink(e, "none")
    ELSE IF modelToAPI[name].api \notin dirs THEN NoLink(e, "none")
    ELSE IF e.linked THEN NoLink(e, "already linked")
    ELSE LinkTransition(e, okLink, okPkg)

\* func autoLinkConsumers(wsPath, ws, name) error
autoLinkConsumers(w, name, dirs, e, okLink, okPkg) ==
    IF name \notin DOMAIN modelToAPI THEN NoLink(e, "none")
    ELSE IF ~Exists(w, modelToAPI[name].api) THEN NoLink(e, "none")
    ELSE IF modelToAPI[name].api \notin dirs THEN NoLink(e, "none")
    ELSE IF ~e.built THEN NoLink(e, "not built")
    ELSE IF e.linked THEN NoLink(e, "already linked")
    ELSE LinkTransition(e, okLink, okPkg)

\* the events a reconciliation adds to blog: the reconciliation itself with
\* its outcome, then the package operations it ran
LinkEvents(phase, name, r) ==
    <<[ev |-> phase, repo |-> name, note |-> r.outcome]>> \o
    [i \in 1..Len(r.ops) |-> [ev |-> r.ops[i], repo |-> name, note |-> phase]]

\* the return value while the command runs, nil, and an error
NoReturn == [kind |-> "running", repo |-> "", cause |-> ""]
Nil == [kind |-> "nil", repo |-> "", cause |-> ""]
Errorf(kind, name) == [kind |-> kind, repo |-> name, cause |-> ""]

\* mutant: the wrapped error names the target instead of the dependency
WrappedNamesTarget(err) ==
    IF di <= Len(deps)
    THEN [kind |-> "dependency build failed", repo |-> target, cause |-> err.kind]
    ELSE err

\* what the command returns when runScript returns err: buildRecursivelyRun
\* wraps the error of a dependency
Wrapped(err) ==
    IF di <= Len(deps)
    THEN [kind |-> "dependency build failed", repo |-> repoName, cause |-> err.kind]
    ELSE err

\* spk run <script> starts in the directory of a repository of the workspace
InitBuild ==
    /\ \E S \in (SUBSET BuildNames) \ {{}} :
         \E l1 \in BuildLists(S, 1, MaxBuildEdges) :
         \E l2 \in BuildLists(S, 2, MaxBuildEdges - Len(l1)) :
         \E l3 \in BuildLists(S, 3, MaxBuildEdges - Len(l1) - Len(l2)) :
            ws = MkWorkspace(S, <<l1, l2, l3, <<>>, <<>>>>)
    /\ target \in DOMAIN ws.Repos
    /\ rpc = "off" /\ result = <<>> /\ entered = <<>>
    /\ runRecursive \in BOOLEAN
    /\ runPublished \in BOOLEAN
    /\ script \in {"build", "test"}
    /\ present \in SUBSET (DOMAIN ws.Repos)
    /\ target \in present
    /\ built \in BOOLEAN
    /\ linked \in BOOLEAN
    /\ built => "AppModel" \in present
    /\ linked => "AppAPI" \in present
    /\ registered = linked
    /\ bpc = "cmd" /\ deps = <<>> /\ di = 0 /\ repoName = ""
    /\ blog = <<>> /\ bret = NoReturn
    /\ SyncOff

\* runCmd.RunE: buildRecursivelyRun for `build -r`, runScript otherwise
RunCmd ==
    /\ bpc = "cmd"
    /\ IF script = "build" /\ runRecursive
       THEN /\ deps' = getDepsForRun(ws, target).result
            /\ di' = 1 /\ bpc' = "dep"
            /\ UNCHANGED repoName
       ELSE /\ deps' = <<>> /\ di' = 1
            /\ repoName' = target /\ bpc' = "begin"
    /\ UNCHANGED <<ws, target, rpc, result, entered, runRecursive, runPublished, script,
                   present, linkVars, blog, bret, svars>>

\* mutant: the target is built without its dependencies
DepNextSkipsDeps ==
    /\ bpc = "dep"
    /\ repoName' = target /\ bpc' = "begin" /\ di' = Len(deps) + 1
    /\ UNCHANGED <<ws, target, rpc, result, entered, runRecursive, runPublished, script,
                   present, linkVars, deps, blog, bret, svars>>

\* mutant: the loop does not look for the directory of the dependency
DepNextBuildsMissing ==
    /\ bpc = "dep"
    /\ IF di <= Len(deps)
       THEN LET dep == deps[di]
            IN IF ~Exists(ws, dep)
               THEN di' = di + 1 /\ UNCHANGED <<bpc, repoName>>
               ELSE /\ repoName' = dep /\ bpc' = "begin"
                    /\ UNCHANGED di
       ELSE /\ repoName' = target /\ bpc' = "begin"
            /\ UNCHANGED di
    /\ UNCHANGED <<ws, target, rpc, result, entered, runRecursive, runPublished, script,
                   present, linkVars, deps, blog, bret, svars>>

\* buildRecursivelyRun: one iteration of the loop over deps up to its call of
\* runScript, and after the loop the call of runScript for the target
DepNext ==
    /\ bpc = "dep"
    /\ IF di <= Len(deps)
       THEN LET dep == deps[di]
            IN IF ~Exists(ws, dep)
               THEN di' = di + 1 /\ UNCHANGED <<bpc, repoName, blog>>
               ELSE IF dep \notin present
               THEN /\ di' = di + 1
                    /\ blog' = Append(blog, [ev |-> "skip", repo |-> dep, note |-> "not cloned"])
                    /\ UNCHANGED <<bpc, repoName>>
               ELSE /\ repoName' = dep /\ bpc' = "begin"
                    /\ UNCHANGED <<di, blog>>
       ELSE /\ repoName' = target /\ bpc' = "begin"
            /\ UNCHANGED <<di, blog>>
    /\ UNCHANGED <<ws, target, rpc, result, entered, runRecursive, runPublished, script,
                   present, linkVars, deps, bret, svars>>

\* mutant: runScript returns the error of a reconciliation
LinkErrorReturnedAlways(r) == r.err

\* if err := autoLink...; err != nil { fmt.Printf(...) }: the error of a
\* reconciliation is printed, runScript does not return it
LinkErrorReturned(r) == FALSE

\* runScript up to the start of the command: the repository and its
\* directory, autoLinkDeps (its error is printed), getScriptCommand
RunScriptPre ==
    /\ bpc = "begin"
    /\ IF ~Exists(ws, repoName)
       THEN /\ bret' = Wrapped(Errorf("repo not found", repoName)) /\ bpc' = "ret"
            /\ UNCHANGED <<linkVars, blog>>
       ELSE IF repoName \notin present
       THEN /\ bret' = Wrapped(Errorf("repo directory does not exist", repoName))
            /\ bpc' = "ret"
            /\ UNCHANGED <<linkVars, blog>>
       ELSE \E okLink, okPkg, hasCommand \in BOOLEAN :
               LET reconcile == script = "build" /\ ~runPublished
                   r == IF reconcile
                        THEN autoLinkDeps(ws, repoName, LinkEnv, okLink, okPkg)
                        ELSE NoLink(LinkEnv, "none")
                   log1 == IF reconcile THEN blog \o LinkEvents("pre", repoName, r) ELSE blog
               IN /\ built' = r.env.built /\ linked' = r.env.linked
                  /\ registered' = r.env.registered
                  /\ IF LinkErrorReturned(r)
                     THEN /\ bret' = Wrapped(Errorf("link failed", repoName))
                          /\ bpc' = "ret"
                          /\ blog' = log1
                     ELSE IF ~hasCommand
                     THEN /\ bret' = Wrapped(Errorf("script not found", repoName))
                          /\ bpc' = "ret"
                          /\ blog' = log1
                     ELSE /\ blog' = Append(log1, [ev |-> "script", repo |-> repoName,
                                                   note |-> script])
                          /\ bpc' = "running"
                          /\ UNCHANGED bret
    /\ UNCHANGED <<ws, target, rpc, result, entered, runRecursive, runPublished, script,
                   present, deps, di, repoName, svars>>

\* runScript from the end of the command: its error is returned; after a
\* build autoLinkConsumers (its error is printed); return nil
ScriptExit ==
    /\ bpc = "running"
    /\ \E ok \in BOOLEAN :
          IF ~ok
          THEN /\ bret' = Wrapped(Errorf("script failed", repoName)) /\ bpc' = "ret"
               /\ blog' = Append(blog, [ev |-> "failed", repo |-> repoName, note |-> script])
               /\ UNCHANGED <<linkVars, di>>
          ELSE \E okLink, okPkg \in BOOLEAN :
               \E artifacts \in (IF script = "build" /\ repoName \in DOMAIN modelToAPI
                                 THEN {built, TRUE} ELSE {built}) :
                  LET reconcile == script = "build" /\ ~runPublished
                      e == [LinkEnv EXCEPT !.built = artifacts]
                      r == IF reconcile
                           THEN autoLinkConsumers(ws, repoName, present, e, okLink, okPkg)
                           ELSE NoLink(e, "none")
                      log1 == Append(blog, [ev |-> "done", repo |-> repoName, note |-> script])
                  IN /\ built' = r.env.built /\ linked' = r.env.linked
                     /\ registered' = r.env.registered
                     /\ blog' = IF reconcile THEN log1 \o LinkEvents("post", repoName, r)
                                ELSE log1
                     /\ IF LinkErrorReturned(r)
                        THEN /\ bret' = Wrapped(Errorf("link failed", repoName))
                             /\ bpc' = "ret" /\ UNCHANGED di
                        ELSE IF di <= Len(deps)
                        THEN di' = di + 1 /\ bpc' = "dep" /\ UNCHANGED bret
                        ELSE bret' = Nil /\ bpc' = "ret" /\ UNCHANGED di
    /\ UNCHANGED <<ws, target, rpc, result, entered, runRecursive, runPublished, script,
                   present, deps, repoName, svars>>

NextBuild == RunCmd \/ DepNext \/ RunScriptPre \/ ScriptExit

BuildSpec == InitBuild /\ [][NextBuild]_vars

(***************************************************************************)
(* Any of the commands.                                                    *)
(***************************************************************************)
Init == InitResolve \/ InitSync \/ InitTarget \/ InitBuild

Next == NextResolve \/ NextSync \/ NextBuild

Spec == Init /\ [][Next]_vars

(***************************************************************************)
(* The dependency graph the resolver walks, stated independently of the    *)
(* walk: the implicit API -> model edge first, then the declared edges to  *)
(* repositories of the workspace, in configuration order.                  *)
(***************************************************************************)
NoDup(s) == \A i, j \in 1..Len(s) : s[i] = s[j] => i = j

ImplicitEdges(w, n) ==
    IF n \in DOMAIN apiToModel /\ Exists(w, apiToModel[n])
    THEN <<apiToModel[n]>> ELSE <<>>

DeclaredEdges(w, n) ==
    IF Exists(w, n)
    THEN SelectSeq(w.Repos[n].Dependencies, LAMBDA d : Exists(w, d))
    ELSE <<>>

EdgeSeq(w, n) == ImplicitEdges(w, n) \o DeclaredEdges(w, n)

EdgeSet(w, n) == {EdgeSeq(w, n)[i] : i \in 1..Len(EdgeSeq(w, n))}

RECURSIVE Closure(_, _)
\* the names reachable from the set S by zero or more edges
Closure(w, S) ==
    LET T == S \cup UNION {EdgeSet(w, n) : n \in S}
    IN IF T = S THEN S ELSE Closure(w, T)

\* the names reachable from n by one or more edges
ReachPlus(w, n) == Closure(w, EdgeSet(w, n))

\* no cycle (self-dependencies included) is reachable from n
Acyclic(w, n) == \A m \in Closure(w, {n}) : m \notin ReachPlus(w, m)

RECURSIVE KeepFirst(_)
\* s with every occurrence of a name after its first removed
KeepFirst(s) ==
    IF s = <<>> THEN <<>>
    ELSE LET h == KeepFirst(SubSeq(s, 1, Len(s) - 1))
             x == s[Len(s)]
         IN IF \E i \in 1..Len(h) : h[i] = x THEN h ELSE Append(h, x)

RECURSIVE Walk(_, _, _), WalkEdges(_, _, _)
\* depth-first walk: a node is emitted when the edge to it has been followed
Walk(w, n, acc) ==
    IF n \in acc.visited THEN acc
    ELSE WalkEdges(w, EdgeSeq(w, n), [acc EXCEPT !.visited = @ \cup {n}])

WalkEdges(w, es, acc) ==
    IF es = <<>> THEN acc
    ELSE LET a1 == Walk(w, Head(es), acc)
         IN WalkEdges(w, Tail(es), [a1 EXCEPT !.out = Append(@, Head(es))])

PostOrder(w, n) ==
    SelectSeq(KeepFirst(Walk(w, n, [out |-> <<>>, visited |-> {}]).out),
              LAMBDA d : d # n)

Resolved == rpc = "resolved"

(***************************************************************************)
(* Claims about the dependency resolver.                                   *)
(***************************************************************************)
\* C1: the sequence getDepsForRun returns contains no repository name more
\* than once, also when a model is reachable through a declared dependency
\* and through the implicit API -> model edge.
C1_NoDuplicates == Resolved => NoDup(result)

\* C2 (as claimed): for every workspace and target, every dependency of an
\* emitted name that exists in the workspace appears at an earlier position.
C2_DepsFirstAlways ==
    Resolved =>
        \A i \in 1..Len(result) :
            \A d \in EdgeSet(ws, result[i]) :
                \E j \in 1..(i - 1) : result[j] = d

\* C2 (amended): when no dependency cycle is reachable from the target,
\* every dependency (declared or implicit) of an emitted name that exists in
\* the workspace appears at an earlier position of the output.
C2_DepsFirstAcyclic ==
    (Resolved /\ Acyclic(ws, target)) =>
        \A i \in 1..Len(result) :
            \A d \in EdgeSet(ws, result[i]) :
                \E j \in 1..(i - 1) : result[j] = d

C2_Witness ==
    /\ Resolved
    /\ Acyclic(ws, target)
    /\ Len(result) >= 3
    /\ \E i \in 1..Len(result) : Cardinality(EdgeSet(ws, result[i])) >= 2

\* C3: the output never contains the target, also when the target lies on a
\* dependency cycle.
C3_NoTarget == Resolved => ~containsRun(result, target)

C3_Witness ==
    /\ Resolved
    /\ target \in ReachPlus(ws, target)
    /\ Len(result) >= 2

\* C4: on graphs with a cycle reachable from the target (self-dependencies
\* and cycles through the implicit edge included) the walk finishes with a
\* finite output and has entered no repository more than once.
C4_EnteredOnce ==
    Resolved =>
        /\ NoDup(entered)
        /\ Len(entered) <= Cardinality(DOMAIN ws.Repos)

C4_Witness ==
    /\ Resolved
    /\ ~Acyclic(ws, target)
    /\ "AppModel" \in ReachPlus(ws, "AppModel")
    /\ Len(entered) >= 3

\* C5: every name of the output, and every repository the walk entered, is a
\* key of the workspace: a declared dependency or implicit model that is not
\* a repository of the workspace is neither emitted nor traversed.
C5_OnlyWorkspaceNames ==
    Resolved =>
        /\ \A i \in 1..Len(result) : Exists(ws, result[i])
        /\ \A i \in 1..Len(entered) : Exists(ws, entered[i])

C5_Witness ==
    /\ Resolved
    /\ Len(result) >= 1
    /\ \E i \in 1..Len(entered) :
         \E k \in 1..Len(ws.Repos[entered[i]].Dependencies) :
            ~Exists(ws, ws.Repos[entered[i]].Dependencies[k])
    /\ "AppAPI" \in {entered[i] : i \in 1..Len(entered)}
    /\ ~Exists(ws, "AppModel")

\* C6: for an API target whose model is in the workspace the output contains
\* the model although the API declares no dependency on it, and it is
\* exactly <<model>> when neither repository declares dependencies.
C6_ImplicitModel ==
    (Resolved /\ target \in DOMAIN apiToModel /\ Exists(ws, apiToModel[target])) =>
        /\ containsRun(result, apiToModel[target])
        /\ (/\ ws.Repos[target].Dependencies = <<>>
            /\ ws.Repos[apiToModel[target]].Dependencies = <<>>)
              => result = <<apiToModel[target]>>

C6_Witness ==
    /\ Resolved
    /\ target = "AppAPI"
    /\ Exists(ws, "AppModel")
    /\ ws.Repos["AppAPI"].Dependencies = <<>>
    /\ ws.Repos["AppModel"].Dependencies = <<>>
    /\ result = <<"AppModel">>

\* C7: the output equals the depth-first post-order walk from the target,
\* implicit edge before declared edges, declared edges in configuration
\* order, keeping the first occurrence of each name.
C7_PostOrder == Resolved => result = PostOrder(ws, target)

\* the scenario of C7: X declares <<Y, Z>>, Y declares <<Z>>
C7_Scenario ==
    (/\ Resolved
     /\ target = "X"
     /\ ws.Repos["X"].Dependencies = <<"Y", "Z">>
     /\ Exists(ws, "Y") /\ ws.Repos["Y"].Dependencies = <<"Z">>
     /\ Exists(ws, "Z") /\ ws.Repos["Z"].Dependencies = <<>>)
        => result = <<"Z", "Y">>

\* apart from the repeated model of C1 the output is that walk
C7_PostOrderUnlessRepeated == (Resolved /\ NoDup(result)) => result = PostOrder(ws, target)


(***************************************************************************)
(* Claims about the sync engine (SyncSpec).                                *)
(***************************************************************************)
\* the git commands of oplog[r] that change the working tree or the branch
Mutating == {"pull", "rebase", "abort", "checkout"}

\* the commands run in r so far
Ops(r) == {oplog[r][i] : i \in 1..Len(oplog[r])}

\* syncRepoFull is past its loop over the local branches
PastBranchLoop ==
    \/ fpc = "finish"
    \/ fpc = "ret" /\ loc.result.aheadBehind = "post"

\* C8: once the multi-branch rebase phase of a repository is over, the branch
\* checked out in it is the branch that was checked out when the sync began,
\* however many secondary branches were visited and whether or not any failed.
C8_BranchRestored ==
    PastBranchLoop => head[cur] = head0[cur]

\* a repository left on a secondary branch with a synced result
C8_Stranded ==
    /\ fpc = "ret" /\ loc.result.status = "synced"
    /\ head0[cur] = "feat" /\ head[cur] = "b1"

\* C9: a repository whose working tree git reports as dirty is skipped, in
\* rebase and in no-rebase mode alike: no pull, rebase, rebase abort or
\* checkout is run in it and its result has dirty set and status skipped;
\* conversely every result with dirty set has status skipped.
C9_DirtySkipped ==
    /\ \A r \in SyncKeys :
          gitStatus[r] = "changes" =>
             /\ Ops(r) \cap Mutating = {}
             /\ head[r] = head0[r]
             /\ (fpc = "ret" /\ cur = r) =>
                   loc.result.dirty /\ loc.result.status = "skipped"
             /\ \A i \in 1..Len(results) :
                   results[i].name = r =>
                      results[i].dirty /\ results[i].status = "skipped"
    /\ loc.result.dirty => loc.result.status = "skipped"
    /\ \A i \in 1..Len(results) : results[i].dirty => results[i].status = "skipped"

\* a sync of all repositories has returned: the dirty repository was skipped
\* and the clean one was synced
C9_Witness ==
    /\ spc = "ret" /\ ret = "nil" /\ Len(results) = 2
    /\ gitStatus["AppAPI"] = "changes" /\ gitStatus["AppModel"] = "clean"
    /\ results[1].name = "AppAPI" /\ results[1].dirty /\ results[1].status = "skipped"
    /\ results[2].status = "synced"
    /\ "rebase" \in Ops("AppModel")

\* the same in no-rebase mode, for the single-repository command
C9_WitnessNoRebase ==
    /\ spc = "ret" /\ ret = "nil" /\ syncNoRebase /\ allNames = <<>>
    /\ gitStatus[cur] = "changes"
    /\ loc.result.dirty /\ loc.result.status = "skipped"

\* every fetch goroutine of Phase 1 has ended
AllFetched ==
    \A r \in SyncKeys :
       /\ task[r] \notin {"ready", "fetching"}
       /\ cloned[r] => task[r] \in {"done", "failed"}

\* C10: in a sync of all repositories no repository is evaluated (dirty
\* check, pull, rebase, skip) before the fetch of every repository has
\* ended, whether it succeeded or failed.
C10_FetchBarrier ==
    (allNames # <<>> /\ (spc \notin {"cmd", "spawn"} \/ fpc # "idle" \/ results # <<>>
                          \/ \E r \in SyncKeys : Ops(r) \cap Mutating # {}))
       => AllFetched

\* the second repository is being rebased after both fetches ended, one of
\* them with an error
C10_Witness ==
    /\ spc = "phase2" /\ idx = 2 /\ fpc = "abort"
    /\ cloned["AppAPI"] /\ cloned["AppModel"]
    /\ task["AppAPI"] = "failed" /\ task["AppModel"] = "done"
    /\ Len(results) = 1 /\ results[1].status = "synced"


\* the mutating commands the step appends to the oplog of r
NewOps(r) ==
    IF Len(oplog'[r]) > Len(oplog[r])
    THEN {oplog'[r][i] : i \in (Len(oplog[r]) + 1)..Len(oplog'[r])} \cap Mutating
    ELSE {}

\* the step runs a mutating command of Phase 2 of a sync of all repositories
MutatingStep == allNames # <<>> /\ \E r \in SyncKeys : NewOps(r) # {}

\* C11: in Phase 2 of a sync of all repositories the mutating commands (pull,
\* rebase, rebase abort, checkout) run one at a time: a step runs at most one
\* of them, in the one repository syncRepoFull is working on, and no fetch
\* goroutine is running or waiting to run while it does.
C11_Sequential ==
    [][MutatingStep =>
          /\ spc = "phase2" /\ fpc \notin {"idle", "ret"}
          /\ \A r \in SyncKeys :
                /\ r # cur => oplog'[r] = oplog[r]
                /\ Len(oplog'[r]) <= Len(oplog[r]) + 1
          /\ AllFetched /\ wg = 0
          /\ task' = task]_vars

\* both repositories have been rebased in Phase 2, the second after the first
\* had returned, and every fetch had ended
C11_Witness ==
    /\ spc = "phase2" /\ idx = 2 /\ fpc = "loop" /\ cur = "AppModel"
    /\ "rebase" \in Ops("AppAPI") /\ "checkout" \in Ops("AppAPI")
    /\ "rebase" \in Ops("AppModel")
    /\ AllFetched


\* a sync of all repositories is past Phase 2
PastPhase2 == allNames # <<>> /\ spc \in {"install", "finish", "ret"}

\* the last two commands run in r were a rebase and a rebase abort
RebaseAborted(r) ==
    LET n == Len(oplog[r])
    IN n >= 2 /\ oplog[r][n - 1] = "rebase" /\ oplog[r][n] = "abort"

\* C12: a rebase failure in one repository does not stop a sync of all
\* repositories: the failing repository gets a failed result after its
\* rebase was aborted, every repository after it in name order is still
\* processed and gets a result of its own, and the command returns nil.
C12_FailureContained ==
    /\ \A i \in 1..Len(results) :
          (allNames # <<>> /\ results[i].message.kind = "rebase failed") =>
             /\ results[i].status = "failed"
             /\ RebaseAborted(results[i].name)
    /\ PastPhase2 =>
          /\ ret # "error"
          /\ \A i \in 1..Len(results) :
                results[i].status = "failed" =>
                   \A j \in (i + 1)..Len(allNames) :
                      /\ j <= Len(results)
                      /\ results[j].name = allNames[j]
                      /\ results[j].status \in {"synced", "skipped", "failed"}
                      /\ (cloned[allNames[j]] /\ ~IsDirty(allNames[j])) =>
                            Ops(allNames[j]) \cap {"pull", "rebase"} # {}

\* the rebase of AppAPI failed and was aborted, AppModel was rebased after it
C12_Witness ==
    /\ spc = "ret" /\ ret = "nil" /\ ~syncNoRebase /\ Len(results) = 2
    /\ results[1].status = "failed" /\ results[1].message.kind = "rebase failed"
    /\ RebaseAborted("AppAPI")
    /\ results[2].status = "synced" /\ "rebase" \in Ops("AppModel")


\* byte order of two repository names
NameBefore(a, b) ==
    \E i, j \in 1..Len(NameSeq) : NameSeq[i] = a /\ NameSeq[j] = b /\ i < j

\* C13: a sync of all repositories produces exactly one result for every
\* repository of the workspace, in ascending order of the names, the
\* repositories without a local checkout included.
C13_OneResultEach ==
    /\ allNames # <<>> =>
          /\ \A i, j \in 1..Len(results) :
                i < j => NameBefore(results[i].name, results[j].name)
          /\ \A i \in 1..Len(results) : results[i].name \in DOMAIN ws.Repos
    /\ PastPhase2 =>
          /\ Len(results) = Cardinality(DOMAIN ws.Repos)
          /\ \A r \in DOMAIN ws.Repos :
                Cardinality({i \in 1..Len(results) : results[i].name = r}) = 1
          /\ \A i \in 1..Len(results) :
                ~cloned[results[i].name] =>
                   /\ results[i].status = "skipped"
                   /\ results[i].message.kind = "not cloned"

\* AppAPI has no checkout and AppModel was synced: two results, in order
C13_Witness ==
    /\ spc = "ret" /\ ret = "nil" /\ allNames # <<>>
    /\ ~cloned["AppAPI"] /\ cloned["AppModel"]
    /\ Len(results) = 2
    /\ results[1].name = "AppAPI" /\ results[1].message.kind = "not cloned"
    /\ results[2].name = "AppModel" /\ results[2].status = "synced"


\* how many times command op was run in r
Count(r, op) == Cardinality({i \in 1..Len(oplog[r]) : oplog[r][i] = op})

\* the elements of a sequence
Range(q) == {q[i] : i \in 1..Len(q)}

\* the secondary branches of the repository syncRepoFull works on
SecondaryBranches == Range(loc.branches) \ {loc.currentBranch, loc.targetBranch}

\* C14: when the rebase of a secondary branch fails, only that rebase is
\* aborted and the branch is recorded as failed; every remaining secondary
\* branch is still attempted and the status of the repository stays synced.
C14_SecondaryFailure ==
    /\ (fpc \in {"loop", "rebaseB", "abortB", "finish"}) =>
          /\ Count(cur, "abort") = Len(loc.failedOthers)
          /\ Range(loc.failedOthers) \cap Range(loc.rebasedOthers) = {}
          /\ Range(loc.failedOthers) \cup Range(loc.rebasedOthers) \subseteq SecondaryBranches
    /\ PastBranchLoop =>
          /\ Count(cur, "checkout") = Cardinality(SecondaryBranches) + 1
          /\ Count(cur, "abort") = Len(loc.failedOthers)
          /\ Count(cur, "rebase") >= 1 + Len(loc.failedOthers) + Len(loc.rebasedOthers)
    /\ (fpc = "ret" /\ loc.result.aheadBehind = "post") =>
          /\ loc.result.status = "synced"
          /\ loc.result.message.failed = loc.failedOthers
          /\ loc.result.message.rebased = Len(loc.rebasedOthers)

\* the rebase of b1 failed and was aborted, b2 was rebased after it, and the
\* repository is synced
C14_Witness ==
    /\ fpc = "ret" /\ loc.result.status = "synced"
    /\ loc.failedOthers = <<"b1">> /\ loc.rebasedOthers = <<"b2">>
    /\ loc.result.message.failed = <<"b1">>
    /\ Count(cur, "abort") = 1 /\ Count(cur, "checkout") = 3


\* res is the result of a failed rebase of the current branch of its repository
PrimaryFailure(res) ==
    /\ res.status = "failed"
    /\ res.message.branch = head0[res.name]
    /\ res.message.upstream = <<"origin", "main">>
    /\ res.branch = head0[res.name]
    /\ Count(res.name, "rebase") = 1
    /\ Count(res.name, "abort") = 1
    /\ Count(res.name, "checkout") = 0
    /\ RebaseAborted(res.name)
    /\ head[res.name] = head0[res.name]

\* C15: when the rebase of the current branch onto the upstream fails, the
\* rebase is aborted, the result is failed with a message that names the
\* current branch and the upstream, and no secondary branch is checked out or
\* rebased.
C15_PrimaryFailure ==
    /\ fpc = "abort" => Count(cur, "rebase") = 1 /\ Count(cur, "checkout") = 0
    /\ loc.result.message.kind = "rebase failed" =>
          fpc \in {"ret", "idle"} /\ PrimaryFailure(loc.result)
    /\ \A i \in 1..Len(results) :
          results[i].message.kind = "rebase failed" => PrimaryFailure(results[i])

\* the rebase of feat failed in a repository that has the secondary branch b1
C15_Witness ==
    /\ fpc = "ret" /\ loc.result.message.kind = "rebase failed"
    /\ loc.result.message.branch = "feat"
    /\ "b1" \in Range(branches[cur])
    /\ oplog[cur] = <<"rebase", "abort">>


\* every rebase run in r comes after a fetch of r
FetchedBeforeRebase(r) ==
    \A i \in 1..Len(oplog[r]) :
       oplog[r][i] = "rebase" => \E j \in 1..(i - 1) : oplog[r][j] = "fetch"

\* C16: the sync of a single named repository, like the sync of all
\* repositories, fetches the repository from origin before its rebase is
\* attempted.
C16_FetchBeforeRebase ==
    \A r \in SyncKeys : FetchedBeforeRebase(r)

\* C16 for the sync of all repositories alone, where it holds
C16_FetchBeforeRebaseAll ==
    allNames # <<>> => \A r \in SyncKeys : FetchedBeforeRebase(r)

\* a single repository was rebased and synced without any fetch
C16_NoFetch ==
    /\ spc = "ret" /\ ret = "nil" /\ allNames = <<>>
    /\ loc.result.status = "synced"
    /\ "rebase" \in Ops(cur) /\ "fetch" \notin Ops(cur)


\* the results the command has, collected or just returned by syncRepoFull
AllResults ==
    (Range(results) \cup (IF fpc = "ret" \/ spc = "ret" THEN {loc.result} ELSE {}))
       \ {ZeroResult}

\* C17: a repository whose lockfile fingerprint (or absence) is the same
\* before the rebase and after all rebases has lockfileChanged false and no
\* install step is run for it; an install step is run for a repository only
\* when install was requested and its lockfileChanged is true.
C17_LockfileInstall ==
    /\ \A res \in AllResults :
          (res.name \in SyncKeys /\ lock[res.name] = lock0[res.name]) =>
             ~res.lockfileChanged /\ res.name \notin installed
    /\ \A r \in installed :
          /\ syncInstall
          /\ \E res \in AllResults : res.name = r /\ res.lockfileChanged

\* with --install: the lockfile of AppAPI changed and npm install was run in
\* it, the lockfile of AppModel is as it was and nothing was installed there
C17_Witness ==
    /\ spc = "ret" /\ ret = "nil" /\ syncInstall /\ Len(results) = 2
    /\ results[1].lockfileChanged /\ lock["AppAPI"] # lock0["AppAPI"]
    /\ results[2].status = "synced" /\ ~results[2].lockfileChanged
    /\ lock0["AppModel"] = "f0" /\ lock["AppModel"] = "f0"
    /\ "rebase" \in Ops("AppModel")
    /\ installed = {"AppAPI"}


(***************************************************************************)
(* Claims about the build orchestrator (BuildSpec).                        *)
(***************************************************************************)
\* the reconciliations of the pair AppModel -> AppAPI from link state e: by
\* autoLinkDeps of the consumer and by autoLinkConsumers of the dependency
Reconciliations(e) ==
    {autoLinkDeps(ws, "AppAPI", e, okLink, okPkg) : okLink, okPkg \in BOOLEAN}
    \cup
    {autoLinkConsumers(ws, "AppModel", present, e, okLink, okPkg) : okLink, okPkg \in BOOLEAN}

\* the package operations blog records for the reconciliation at position i
OpsOf(i) ==
    {j \in (i + 1)..Len(blog) :
        /\ blog[j].ev \in {"npm link", "npm link pkg"}
        /\ \A k \in (i + 1)..j : blog[k].ev \in {"npm link", "npm link pkg"}}

\* C18: link reconciliation is idempotent: when a reconciliation has
\* registered and linked the local build, the reconciliation of the same
\* dependency and consumer that follows it with no artifact change in
\* between runs no registration and no link and reports already linked.
C18_Idempotent ==
    /\ \A r1 \in Reconciliations(LinkEnv) :
          r1.outcome = "linked" =>
             /\ r1.env.linked /\ r1.env.built
             /\ \A r2 \in Reconciliations(r1.env) :
                   /\ r2.ops = <<>> /\ r2.env = r1.env /\ ~r2.err
                   /\ r2.outcome \in {"already linked", "none"}
                   /\ r2.outcome = "none" => "AppAPI" \notin present
    /\ \A i \in 1..Len(blog) :
          (blog[i].ev \in {"pre", "post"} /\ blog[i].note = "linked") =>
             \A j \in (i + 1)..Len(blog) :
                (blog[j].ev \in {"pre", "post"} /\ blog[j].note # "none") =>
                   blog[j].note = "already linked" /\ OpsOf(j) = {}

\* in a recursive build of AppAPI the build of AppModel linked the consumer
\* and the reconciliation before the build of AppAPI found it linked
C18_Witness ==
    \E i, j \in 1..Len(blog) :
       /\ i < j
       /\ blog[i] = [ev |-> "post", repo |-> "AppModel", note |-> "linked"]
       /\ blog[j] = [ev |-> "pre", repo |-> "AppAPI", note |-> "already linked"]


\* the package operations the step adds to blog
NewLinkOps ==
    {j \in (Len(blog) + 1)..Len(blog') : blog'[j].ev \in {"npm link", "npm link pkg"}}

\* C19: link reconciliation runs package operations only in the state built
\* and not linked: without build artifacts the consumer is left untouched,
\* linked or not, and when the consumer is linked already nothing is
\* registered or linked again.
C19_OnlyBuiltUnlinked ==
    /\ [](\A r \in Reconciliations(LinkEnv) :
            /\ r.ops # <<>> => built /\ ~linked
            /\ ~built => r.ops = <<>> /\ r.env = LinkEnv /\ r.outcome \in {"not built", "none"}
            /\ linked => r.ops = <<>> /\ r.env = LinkEnv)
    /\ [][/\ NewLinkOps # {} => ~linked /\ built'
          /\ (linked' # linked \/ registered' # registered) => NewLinkOps # {} /\ ~linked
          /\ ~built' => linked' = linked /\ registered' = registered]_vars

\* the consumer is linked, the model has no build artifacts: the
\* reconciliation before the build of AppAPI left the link as it was
C19_Witness ==
    /\ bpc = "running" /\ repoName = "AppAPI" /\ linked /\ ~built
    /\ \E i \in 1..Len(blog) :
          blog[i] = [ev |-> "pre", repo |-> "AppAPI", note |-> "not built"]
    /\ \A i \in 1..Len(blog) : blog[i].ev \notin {"npm link", "npm link pkg"}


\* the step records a failed reconciliation of kind phase
FailedInStep(phase) ==
    \E j \in (Len(blog) + 1)..Len(blog') :
       blog'[j].ev = phase /\ blog'[j].note = "failed"

\* the step starts the script of repoName
ScriptStarted ==
    /\ bpc' = "running" /\ bret' = NoReturn
    /\ blog'[Len(blog')] = [ev |-> "script", repo |-> repoName, note |-> script]

\* the step ends runScript of repoName with nil
BuildSucceeded ==
    \/ bpc' = "ret" /\ bret' = Nil /\ di > Len(deps)
    \/ bpc' = "dep" /\ bret' = NoReturn /\ di <= Len(deps) /\ di' = di + 1

\* C20: a failure of link reconciliation never fails the build: after a
\* failed reconciliation before the build the script is still run (unless
\* the repository has no such script), and after a failed reconciliation
\* after the build the build still reports success.
C20_LinkFailureContained ==
    [][/\ FailedInStep("pre") =>
             \/ ScriptStarted
             \/ bret'.kind = "script not found" \/ bret'.cause = "script not found"
       /\ FailedInStep("post") => BuildSucceeded
       /\ bret'.kind # "link failed" /\ bret'.cause # "link failed"]_vars

\* npm link failed before the build of AppAPI and the script ran all the
\* same; the build returned nil
C20_Witness ==
    /\ bpc = "ret" /\ bret = Nil /\ repoName = "AppAPI"
    /\ \E i \in 1..Len(blog) :
          /\ blog[i] = [ev |-> "pre", repo |-> "AppAPI", note |-> "failed"]
          /\ \E j \in (i + 1)..Len(blog) : blog[j].ev = "done" /\ blog[j].repo = "AppAPI"

\* npm link failed after the build of AppModel and the build returned nil
C20_WitnessPost ==
    /\ bpc = "ret" /\ bret = Nil /\ repoName = "AppModel"
    /\ blog[Len(blog)].ev \in {"npm link", "npm link pkg"}
    /\ \E i \in 1..Len(blog) :
          blog[i] = [ev |-> "post", repo |-> "AppModel", note |-> "failed"]


\* blog[i] is the start of the build script of a model whose API consumer is
\* a repository of the workspace with a directory, in a build that links
ModelBuildAt(i) ==
    /\ blog[i].ev = "script" /\ blog[i].note = "build" /\ ~runPublished
    /\ blog[i].repo \in DOMAIN modelToAPI
    /\ Exists(ws, modelToAPI[blog[i].repo].api)
    /\ modelToAPI[blog[i].repo].api \in present

\* blog[j] is a reconciliation of kind phase of the consumer of model name
ConsumerReconciledAt(j, phase, name) ==
    blog[j].ev = phase /\ blog[j].repo = name /\ blog[j].note # "none"

RecursiveBuild == script = "build" /\ runRecursive /\ bpc \notin {"off", "cmd"}

\* the repositories runScript was called for, in order: each call logs a
\* "script" event, or ends at once with "script not found"
Started == SelectSeq(blog, LAMBDA x : x.ev = "script")

\* the dependencies that are built (those with a directory), then the target
BuildOrder == SelectSeq(deps, LAMBDA d : d \in present) \o <<target>>

\* C22: in a recursive build the dependencies are built in the order of the
\* resolver; as soon as the build of one dependency fails the chain stops: no
\* later dependency and not the target is built, and the error returned
\* names the failing dependency.
C22_ChainStops ==
    RecursiveBuild =>
       /\ deps = getDepsForRun(ws, target).result
       /\ Len(Started) <= Len(BuildOrder)
       /\ \A k \in 1..Len(Started) : Started[k].repo = BuildOrder[k]
       /\ bret.kind = "dependency build failed" =>
             /\ bpc = "ret" /\ di <= Len(deps)
             /\ bret.repo = deps[di] /\ bret.repo = repoName
             /\ bret.cause = "script failed" =>
                   blog[Len(blog)].ev = "failed" /\ blog[Len(blog)].repo = bret.repo
             /\ \A k \in 1..Len(Started) : Started[k].repo # target
             /\ Len(Started) <= Cardinality({j \in 1..di : deps[j] \in present})
       /\ \A k \in 1..Len(blog) : blog[k].ev = "failed" => (k = Len(blog) /\ bpc = "ret")

\* the build of the second of two dependencies failed: the first was
\* built, the target was not, the error names the second
C22_Witness ==
    /\ RecursiveBuild /\ bpc = "ret" /\ Len(deps) = 2 /\ di = 2
    /\ bret = [kind |-> "dependency build failed", repo |-> deps[2], cause |-> "script failed"]
    /\ Len(Started) = 2 /\ Started[1].repo = deps[1] /\ Started[2].repo = deps[2]
    /\ deps[1] # deps[2]

\* blog[i] is the start of the build script of the target of a recursive build
TargetScriptAt(i) ==
    RecursiveBuild /\ blog[i].ev = "script" /\ blog[i].repo = target

C24_PublishedNotLinked ==
    (bpc = "running" /\ script = "build" /\ runPublished) => ~linked

\* what the code ensures with --published: the run changes nothing of the
\* link state and runs no package operation
C24_PublishedLeavesLinks ==
    [][(runPublished /\ bpc # "off") =>
          /\ linked' = linked /\ registered' = registered
          /\ NewLinkOps = {}]_vars

\* the script of AppAPI runs in a --published build while the consumer is
\* still linked to the local build
C24_StillLinked ==
    /\ bpc = "running" /\ script = "build" /\ runPublished
    /\ repoName = "AppAPI" /\ linked /\ built

\* the order of the events of one call of runScript: after a reconciliation
\* before the script and its package operations comes the script of the same
\* repository, unless the command returned; a reconciliation after the
\* script follows a successful script only
LifecycleOrder ==
    \A i \in 1..Len(blog) :
       /\ blog[i].ev = "pre" =>
             LET n == Cardinality(OpsOf(i))
             IN /\ i + n < Len(blog) =>
                      blog[i + n + 1].ev = "script" /\ blog[i + n + 1].repo = blog[i].repo
                /\ i + n = Len(blog) => bpc = "ret" /\ bret.kind # "nil"
       /\ blog[i].ev = "script" =>
             /\ (script = "build" /\ ~runPublished) =>
                   \E j \in 1..(i - 1) :
                      /\ blog[j].ev = "pre" /\ blog[j].repo = blog[i].repo
                      /\ j + Cardinality(OpsOf(j)) + 1 = i
             /\ i < Len(blog) =>
                   blog[i + 1].ev \in {"done", "failed"} /\ blog[i + 1].repo = blog[i].repo
             /\ i = Len(blog) => bpc = "running"
       /\ blog[i].ev = "post" =>
             i > 2 /\ blog[i - 1].ev = "done" /\ blog[i - 1].repo = blog[i].repo
       /\ blog[i].ev = "failed" => i = Len(blog)
       /\ (blog[i].ev = "done" /\ script = "build" /\ ~runPublished) =>
             i < Len(blog) /\ blog[i + 1].ev = "post" /\ blog[i + 1].repo = blog[i].repo

\* the error kinds of runScript for a repository of the workspace whose
\* directory exists
FailureKind == IF bret.kind = "dependency build failed" THEN bret.cause ELSE bret.kind

\* the build of a repository of the workspace with a directory ended in failure
BuildFailed ==
    bpc = "ret" /\ bret.kind \notin {"nil", "running"} /\ Exists(ws, repoName) /\ repoName \in present

\* C25: the build of a repository goes through reconciliation before the
\* script, the script, reconciliation after it, the last only after the
\* script succeeded; and the only way the build of an existing repository
\* ends in failure is a failing run of the script.
C25_OnlyScriptFails ==
    /\ LifecycleOrder
    /\ BuildFailed => FailureKind = "script failed"

\* C25 as the code has it: the build also ends in failure, after the
\* reconciliation before the script, when the repository has no command for
\* the script.
C25_Lifecycle ==
    /\ LifecycleOrder
    /\ BuildFailed => FailureKind \in {"script failed", "script not found"}
    /\ (BuildFailed /\ FailureKind = "script failed") => blog[Len(blog)].ev = "failed"
    /\ (BuildFailed /\ FailureKind = "script not found") =>
          (blog = <<>> \/ blog[Len(blog)].ev \notin {"failed", "script"})

\* AppAPI has no build script: the model was linked before the script was
\* looked up and the build ended in failure without running anything
C25_Witness ==
    /\ bpc = "ret" /\ bret = Errorf("script not found", "AppAPI")
    /\ Len(blog) = 3
    /\ blog[1] = [ev |-> "pre", repo |-> "AppAPI", note |-> "linked"]
    /\ linked


\* the transition from link state e for each outcome of its two commands
TransitionSteps(e) ==
    \A okLink, okPkg \in BOOLEAN :
       LET r == LinkTransition(e, okLink, okPkg)
       IN /\ r.ops[1] = "npm link"
          /\ ~okLink => /\ r.ops = <<"npm link">>
                        /\ r.env = e /\ r.err /\ r.outcome = "failed"
          /\ okLink => /\ r.ops = <<"npm link", "npm link pkg">>
                       /\ r.env.registered
          /\ (okLink /\ ~okPkg) => /\ r.env.linked = e.linked
                                   /\ r.err /\ r.outcome = "failed"
          /\ r.outcome = "linked" <=> (okLink /\ okPkg)
          /\ r.outcome = "linked" => r.env.linked /\ r.env.registered /\ ~r.err

\* C26: the link transition registers the build output of the dependency
\* first and creates the link of the consumer second: the link is never
\* attempted when the registration failed, the outcome is linked only when
\* both steps succeeded, and a failure of the second step does not undo the
\* registration.
C26_RegisterThenLink ==
    /\ [](/\ TransitionSteps(LinkEnv)
          /\ \A i \in 1..Len(blog) :
                /\ blog[i].ev = "npm link pkg" =>
                      i > 1 /\ blog[i - 1].ev = "npm link" /\ blog[i - 1].repo = blog[i].repo
                /\ blog[i].ev = "npm link" =>
                      i > 1 /\ blog[i - 1].ev \in {"pre", "post"}
                            /\ blog[i - 1].note \in {"linked", "failed"}
                /\ (blog[i].ev \in {"pre", "post"} /\ blog[i].note = "linked") =>
                      Cardinality(OpsOf(i)) = 2 /\ registered /\ linked
                /\ (blog[i].ev \in {"pre", "post"} /\ blog[i].note = "failed") =>
                      Cardinality(OpsOf(i)) \in {1, 2}
                /\ (blog[i].ev = "npm link pkg") => registered)
    /\ [][(registered => registered') /\ (linked' /\ ~linked => registered')]_vars

\* npm link succeeded and npm link <pkg> failed: the build output stays
\* registered and the consumer is not linked
C26_Witness ==
    /\ registered /\ ~linked /\ Len(blog) >= 3
    /\ blog[1] = [ev |-> "pre", repo |-> "AppAPI", note |-> "failed"]
    /\ blog[2].ev = "npm link" /\ blog[3].ev = "npm link pkg"

\* C27: after the multi-branch phase every local branch that is neither the
\* current nor the target branch is accounted for in the result message: the
\* number reported as rebased plus the number named as failed equals the
\* number of such branches.
C27_AllAccounted ==
    (fpc = "ret" /\ loc.result.aheadBehind = "post") =>
        loc.result.message.rebased + Len(loc.result.message.failed)
            = Cardinality(SecondaryBranches)

\* what the loop does keep: every secondary branch is checked out once (the
\* last checkout is the return to the current branch), and a branch is counted
\* at most once, as rebased or as failed
C27_AttemptedOnce ==
    PastBranchLoop =>
        /\ Count(cur, "checkout") = Cardinality(SecondaryBranches) + 1
        /\ Len(loc.rebasedOthers) + Len(loc.failedOthers) <= Cardinality(SecondaryBranches)
        /\ Range(loc.rebasedOthers) \cap Range(loc.failedOthers) = {}
        /\ Range(loc.rebasedOthers) \cup Range(loc.failedOthers) \subseteq SecondaryBranches

\* a secondary branch whose checkout failed is in neither list
C27_Unaccounted ==
    /\ fpc = "ret" /\ loc.result.aheadBehind = "post"
    /\ SecondaryBranches = {"b1"}
    /\ loc.result.message = NoMessage

\* the branch a ref of origin names: the segments after refs/remotes/origin,
\* joined by "/"
RECURSIVE Join(_)
Join(parts) ==
    IF Len(parts) = 0 THEN ""
    ELSE IF Len(parts) = 1 THEN parts[1]
    ELSE parts[1] \o "/" \o Join(Tail(parts))

Advertised(o) == Join(SubSeq(o.ref, 4, Len(o.ref)))

\* syncRepoFull has chosen the target branch of cur
TargetChosen == spc = "one" /\ fpc = "dirty"

\* the first source that is not empty, in the order: override, default of the
\* repository, default of the workspace, default branch origin advertises;
\* without any of them one of the hardcoded names
FromPrecedence(r, b) ==
    IF syncBranch # "" THEN b = syncBranch
    ELSE IF repoDefaultBranch[r] # "" THEN b = repoDefaultBranch[r]
    ELSE IF wsDefaultBranch # "" THEN b = wsDefaultBranch
    ELSE IF remote[r].ok THEN b = Advertised(remote[r])
    ELSE b \in {"main", "prod"}

\* C28: the target branch of a sync is chosen by strict precedence: the
\* per-run override if set, else the default branch of the repository if set,
\* else the default branch of the workspace if set, else the default branch
\* the remote advertises, else the hardcoded fallback; a lower source is used
\* only when every higher one is empty.
C28_Precedence ==
    TargetChosen => FromPrecedence(cur, loc.targetBranch)

\* the precedence holds whenever the advertised default branch has no "/" in
\* its name, and for such a name the target is its last segment
C28_PrecedenceFlatNames ==
    TargetChosen =>
        IF syncBranch = "" /\ repoDefaultBranch[cur] = "" /\ wsDefaultBranch = ""
           /\ remote[cur].ok /\ Len(remote[cur].ref) > 4
        THEN loc.targetBranch = remote[cur].ref[Len(remote[cur].ref)]
        ELSE FromPrecedence(cur, loc.targetBranch)

\* origin advertises release/v1 and the target chosen is v1
C28_Truncated ==
    /\ TargetChosen
    /\ syncBranch = "" /\ repoDefaultBranch[cur] = "" /\ wsDefaultBranch = ""
    /\ remote[cur].ok /\ Advertised(remote[cur]) = "release/v1"
    /\ loc.targetBranch = "v1"

\* C29: in no-rebase mode a repository whose working tree git does not report
\* as dirty is synchronized by exactly one plain pull: no rebase, no rebase
\* abort and no checkout is run in it, no lockfile fingerprint is taken or
\* compared, and the status is synced if the pull succeeded and failed if it
\* did not.
C29_PlainPull ==
    /\ (syncNoRebase /\ fpc = "ret" /\ gitStatus[cur] # "changes") =>
          /\ Count(cur, "pull") = 1
          /\ Ops(cur) \cap {"rebase", "abort", "checkout"} = {}
          /\ loc.lockBefore = "" /\ ~loc.result.lockfileChanged
          /\ loc.result.status = (IF loc.err = "nil" THEN "synced" ELSE "failed")
    /\ syncNoRebase =>
          \A i \in 1..Len(results) :
             (cloned[results[i].name] /\ gitStatus[results[i].name] # "changes") =>
                /\ Count(results[i].name, "pull") = 1
                /\ Ops(results[i].name) \cap {"rebase", "abort", "checkout"} = {}
                /\ ~results[i].lockfileChanged
                /\ results[i].status \in {"synced", "failed"}

\* a clean repository whose pull failed, in a sync of all repositories
C29_Witness ==
    /\ syncNoRebase /\ spc = "ret" /\ ret = "nil"
    /\ \E i \in 1..Len(results) :
          /\ gitStatus[results[i].name] = "clean"
          /\ results[i].status = "failed"
          /\ results[i].message.kind = "pull failed"

\* a clean repository pulled with success, its lockfile rewritten by the pull
C29_WitnessSynced ==
    /\ syncNoRebase /\ fpc = "ret" /\ gitStatus[cur] = "clean"
    /\ loc.result.status = "synced" /\ loc.err = "nil"
    /\ lock0[cur] = "f0" /\ lock[cur] = "f1"

\* a fetch goroutine was started for the directory of r
FetchIssued(r) == task[r] # "none"

\* Phase 1 of a sync of all repositories is over
PastPhase1 == allNames # <<>> /\ spc \notin {"cmd", "spawn"}

\* C30: Phase 1 issues exactly one fetch for every repository that has a
\* local checkout, in the directory of that repository, and none for a
\* repository without one; a fetch that fails is swallowed: the sync goes on
\* to give every repository a result and returns nil, and a result is failed
\* only when a pull or a rebase failed in that repository.
C30_FetchEachOnce ==
    /\ \A r \in SyncKeys :
          /\ Count(r, "fetch") <= 1
          /\ Count(r, "fetch") = 1 <=> task[r] \in {"fetching", "done", "failed"}
          /\ FetchIssued(r) => cloned[r]
    /\ (spc = "spawn") =>
          \A i \in 1..Len(allNames) :
             (i < idx /\ cloned[allNames[i]]) => FetchIssued(allNames[i])
    /\ PastPhase1 =>
          \A r \in DOMAIN ws.Repos : Count(r, "fetch") = (IF cloned[r] THEN 1 ELSE 0)
    /\ (PastPhase1 /\ spc = "ret") => (ret = "nil" /\ Len(results) = Len(allNames))
    /\ \A res \in AllResults :
          res.status = "failed" =>
             \/ res.message.kind = "pull failed" /\ Count(res.name, "pull") = 1
             \/ res.message.kind = "rebase failed" /\ "abort" \in Ops(res.name)

\* the sync of two checkouts has returned nil: the fetch of AppAPI failed and
\* AppAPI is synced, the fetch of AppModel succeeded
C30_Witness ==
    /\ PastPhase1 /\ spc = "ret" /\ ret = "nil"
    /\ task["AppAPI"] = "failed" /\ task["AppModel"] = "done"
    /\ Count("AppAPI", "fetch") = 1 /\ Count("AppModel", "fetch") = 1
    /\ results[1].name = "AppAPI" /\ results[1].status = "synced"

\* the position of the first occurrence of n in s, 0 when n is not in s
FirstAt(s, n) ==
    IF \E i \in 1..Len(s) : s[i] = n
    THEN CHOOSE i \in 1..Len(s) : s[i] = n /\ \A j \in 1..(i - 1) : s[j] # n
    ELSE 0

\* C31: when the graph of declared and implicit edges reachable from the
\* target is acyclic, the output is a topological order of the transitive
\* dependencies of the target: it contains every repository of the workspace
\* reachable from the target, and the first occurrence of each repository
\* comes after the first occurrence of each of its dependencies.
C31_Topological ==
    (Resolved /\ Acyclic(ws, target)) =>
        /\ \A n \in ReachPlus(ws, target) : containsRun(result, n)
        /\ \A i \in 1..Len(result) :
              \A d \in EdgeSet(ws, result[i]) :
                 /\ FirstAt(result, d) > 0
                 /\ FirstAt(result, d) < FirstAt(result, result[i])

\* an acyclic workspace where a dependency of the target has dependencies of
\* its own, two of them
C31_Witness ==
    /\ Resolved /\ Acyclic(ws, target)
    /\ \E n \in EdgeSet(ws, target) :
          /\ Cardinality(EdgeSet(ws, n)) = 2
          /\ EdgeSet(ws, n) \cap EdgeSet(ws, target) = {}
    /\ Len(result) >= 3

\* C32: in every sync result lockfileChanged implies status synced, so a
\* repository whose result is skipped or failed (dirty tree, not cloned,
\* failed pull, failed rebase of the current branch) never has the install
\* step run for it.
C32_ChangedOnlySynced ==
    /\ loc.result.lockfileChanged => loc.result.status = "synced"
    /\ \A res \in AllResults :
          /\ res.lockfileChanged => res.status = "synced"
          /\ res.status \in {"skipped", "failed"} => res.name \notin installed
    /\ \A r \in installed :
          \E res \in AllResults : res.name = r /\ res.status = "synced"

\* with --install: the rebase of AppAPI failed, AppModel is synced with a
\* changed lockfile, and npm install was run in AppModel only
C32_Witness ==
    /\ spc = "ret" /\ ret = "nil" /\ syncInstall /\ Len(results) = 2
    /\ results[1].status = "failed" /\ results[1].message.kind = "rebase failed"
    /\ results[2].status = "synced" /\ results[2].lockfileChanged
    /\ installed = {"AppModel"}

\* Phase 2 of a sync of all repositories has given r its result
PastPhase2Of(r) ==
    \/ spc \in {"install", "finish", "ret"}
    \/ spc = "phase2" /\ \E i \in 1..Len(allNames) : allNames[i] = r /\ i < idx

\* C33: in a sync of all repositories a repository without a local checkout
\* is never fetched, pulled, rebased or checked out (no goroutine is started
\* for it and syncRepoFull is not called on it), and its result has status
\* skipped with the message not cloned.
C33_NotClonedSkipped ==
    allNames # <<>> =>
        \A r \in DOMAIN ws.Repos :
           ~cloned[r] =>
              /\ oplog[r] = <<>>
              /\ task[r] = "none"
              /\ fpc # "idle" => cur # r
              /\ r \notin installed
              /\ \A i \in 1..Len(results) :
                    results[i].name = r =>
                       /\ results[i].status = "skipped"
                       /\ results[i].message.kind = "not cloned"
              /\ PastPhase2Of(r) => \E i \in 1..Len(results) : results[i].name = r

\* AppAPI has no checkout and is skipped as not cloned, AppModel was fetched
\* and rebased
C33_Witness ==
    /\ allNames # <<>> /\ spc = "ret" /\ ret = "nil"
    /\ ~cloned["AppAPI"] /\ cloned["AppModel"]
    /\ oplog["AppAPI"] = <<>>
    /\ results[1].name = "AppAPI" /\ results[1].message.kind = "not cloned"
    /\ results[2].status = "synced" /\ "fetch" \in Ops("AppModel")

\* blog has the event ev of repository r
Logs(ev, r) == \E k \in 1..Len(blog) : blog[k].ev = ev /\ blog[k].repo = r

\* C34: in a recursive build a resolved dependency whose directory does not
\* exist is skipped: no build script and no link step is run for it, the
\* loop goes on past it, and the chain fails only at a dependency that has a
\* directory; when nothing fails every other dependency and the target are
\* built.
C34_MissingSkipped ==
    RecursiveBuild =>
        /\ \A k \in 1..Len(blog) : blog[k].repo \notin present => blog[k].ev = "skip"
        /\ ~({"AppAPI", "AppModel"} \subseteq present) =>
              \A k \in 1..Len(blog) : blog[k].ev \notin {"npm link", "npm link pkg"}
        /\ \A j \in 1..Len(deps) :
              (j < di /\ deps[j] \notin present) => Logs("skip", deps[j])
        /\ bret.kind = "dependency build failed" => bret.repo \in present
        /\ (bpc = "ret" /\ bret = Nil) =>
              /\ \A j \in 1..Len(deps) : deps[j] \in present => Logs("done", deps[j])
              /\ Logs("done", target)

\* the first dependency has no directory and was skipped, the second one and
\* the target were built
C34_Witness ==
    /\ RecursiveBuild /\ bpc = "ret" /\ bret = Nil
    /\ Len(deps) = 2 /\ deps[1] \notin present /\ deps[2] \in present
    /\ Logs("skip", deps[1]) /\ ~Logs("script", deps[1])
    /\ Logs("done", deps[2]) /\ Logs("done", target)

\* the step is the return of syncRepo for a name that is not a repository of
\* the workspace, or whose directory is missing
ConfigErrorStep ==
    \E name \in SyncKeys \cup {UnknownRepo} :
       /\ name \notin DOMAIN ws.Repos \/ ~cloned[name]
       /\ SyncCmdOne(name)

\* nothing was synced, installed or updated
NothingDone ==
    /\ cur = "" /\ results = <<>> /\ installed = {} /\ stepFailed = {}
    /\ \A r \in SyncKeys : oplog[r] = <<>>

\* C35: syncRepo and syncAllRepos return an error only for a configuration
\* error, an unknown repository name or a missing directory in the sync of
\* one repository; a result with status failed or skipped, a failed install
\* step or a failed package update never makes them return an error.
C35_ErrorOnlyConfig ==
    /\ [](/\ ret = "error" => (allNames = <<>> /\ NothingDone)
          /\ (spc = "ret" /\ (AllResults # {} \/ stepFailed # {})) => ret = "nil")
    /\ [][(ret' = "error" /\ ret # "error") => ConfigErrorStep]_vars

\* a sync of all repositories has returned nil with a failed result, a
\* skipped result, a failed npm install and a failed package update
C35_Witness ==
    /\ spc = "ret" /\ ret = "nil" /\ Len(results) = 2
    /\ results[1].status = "failed"
    /\ results[2].status = "synced"
    /\ <<"install", results[2].name>> \in stepFailed
    /\ <<"update", results[1].name>> \in stepFailed

\* a sync of one repository has returned nil with a skipped result
C35_WitnessOne ==
    /\ spc = "ret" /\ ret = "nil" /\ allNames = <<>>
    /\ loc.result.status = "skipped" /\ loc.result.dirty

\* the sync of a repository without a directory has returned an error
C35_WitnessError ==
    /\ spc = "ret" /\ ret = "error" /\ NothingDone
    /\ \E r \in SyncKeys : ~cloned[r]
====
